---- MODULE Spec2Model ----
(***************************************************************************)
(* State-machine model of the Prakrit unified parser                       *)
(* (src/unified_parser.py, class PrakritUnifiedParser), of the stand-alone *)
(* verb ending analyser (src/verb_analyzer.py) and of the recursion of     *)
(* EnhancedPrakritAnalyzer.analyze_noun_form (src/analyze_app.py).         *)
(*                                                                         *)
(* Conventions                                                             *)
(*  - A text is a sequence of one-character strings.  The IAST letters the *)
(*    source uses next to Harvard-Kyoto are written "a^" "i^" "u^" (long   *)
(*    a, i, u with macron), "t." "d." "n." (retroflex t, d, n) and "m."    *)
(*    (anusvara with dot); each of them is ONE character of the text.      *)
(*  - Confidences are integers, in hundredths (0.95 is 95).                *)
(*  - A key that a Python dict does not hold is the value Absent.          *)
(*  - A Devanagari character is written "dev_" and its name ("dev_pa",     *)
(*    "dev_sign_u", "dev_virama", "dev_anusvara"); it is ONE character.    *)
(***************************************************************************)
EXTENDS Integers, Sequences, FiniteSets, TLC

VARIABLES
  call_stack,       \* the calls of EnhancedPrakritAnalyzer.analyze_noun_form in progress
  data_files,       \* verbs1.json and the verb and noun form databases: can each be read
  all_verb_forms,   \* self.all_verb_forms: root -> forms, in load order
  all_noun_forms,   \* self.all_noun_forms: stem -> {form -> tags}, in load order
  verb_roots,       \* self.verb_roots: set of roots
  ALL_VERB_FORMS,   \* verb_analyzer.ALL_VERB_FORMS: root -> forms, in load order
  VERB_ROOTS,       \* verb_analyzer.VERB_ROOTS: set of roots
  feedback_data,    \* self.feedback_data: suffix_accuracy, total_feedback, form_corrections
  feedback_file,    \* user_feedback.json: whether it exists, and the data it holds
  request,          \* the call in flight: [op, text], or NoRequest
  response          \* what the last call returned, or NoResponse

vars == <<call_stack, data_files, all_verb_forms, all_noun_forms, verb_roots, ALL_VERB_FORMS, VERB_ROOTS,
          feedback_data, feedback_file, request, response>>

---------------------------------------------------------------------------
(* Strings *)

Absent == <<"<absent>">>

Last(s) == s[Len(s)]

DropLast(s, n) == SubSeq(s, 1, Len(s) - n)

\* str.endswith
EndsWith(s, t) ==
  /\ Len(t) <= Len(s)
  /\ SubSeq(s, Len(s) - Len(t) + 1, Len(s)) = t

\* str.startswith
StartsWith(s, t) ==
  /\ Len(t) <= Len(s)
  /\ SubSeq(s, 1, Len(t)) = t

\* t in s, for strings
Contains(s, t) ==
  \E i \in 1..(Len(s) - Len(t) + 1) : SubSeq(s, i, i + Len(t) - 1) = t

\* str.strip(): leading and trailing white space removed
strip(s) ==
  LET keep == {i \in 1..Len(s) : s[i] # " "}
  IN  IF keep = {} THEN <<>>
      ELSE LET lo == CHOOSE i \in keep : \A j \in keep : i <= j
               hi == CHOOSE i \in keep : \A j \in keep : j <= i
           IN  SubSeq(s, lo, hi)

\* sorted(items, key=..., reverse=True): Python's sort is stable, and with
\* reverse=True items of equal key keep their original order.
StableSortDesc(items, key) ==
  LET n == Len(items)
      rank == [i \in 1..n |->
                 Cardinality({j \in 1..n : \/ key[j] > key[i]
                                            \/ (key[j] = key[i] /\ j < i)}) + 1]
  IN  [k \in 1..n |-> items[CHOOSE i \in 1..n : rank[i] = k]]

RECURSIVE Flatten(_)
\* the concatenation of a sequence of sequences
Flatten(ss) ==
  IF ss = <<>> THEN <<>> ELSE Head(ss) \o Flatten(Tail(ss))

\* items[:n]
Take(items, n) == SubSeq(items, 1, IF Len(items) < n THEN Len(items) ELSE n)

Min(a, b) == IF a <= b THEN a ELSE b

Max(a, b) == IF a >= b THEN a ELSE b

---------------------------------------------------------------------------
(* initialize_suffix_database *)

noun_suffixes ==
  <<
    [suffix |-> <<"h", "i", "n", "t", "o">>, cases |-> <<"ablative">>,
     numbers |-> <<"singular", "plural">>,
     genders |-> <<"masculine", "feminine", "neuter">>,
     must_precede |-> {"a^", "i^", "u^", "e"},
     blocks |-> {<<"o">>, <<"t", "o">>, <<"i", "n", "t", "o">>}, priority |-> 5, confidence |-> 95],
    [suffix |-> <<"h", "i", "M", "t", "o">>, cases |-> <<"ablative">>,
     numbers |-> <<"singular", "plural">>,
     genders |-> <<"masculine", "feminine", "neuter">>,
     must_precede |-> {"a^", "i^", "u^", "e"},
     blocks |-> {<<"o">>, <<"t", "o">>, <<"i", "M", "t", "o">>, <<"i", "n", "t", "o">>}, priority |-> 5, confidence |-> 95],
    [suffix |-> <<"s", "u", "n", "t", "o">>, cases |-> <<"ablative">>,
     numbers |-> <<"plural">>,
     genders |-> <<"masculine", "feminine", "neuter">>,
     must_precede |-> {"a^", "i^", "u^", "e"},
     blocks |-> {<<"o">>, <<"t", "o">>, <<"u", "n", "t", "o">>}, priority |-> 5, confidence |-> 95],
    [suffix |-> <<"s", "u", "M", "t", "o">>, cases |-> <<"ablative">>,
     numbers |-> <<"plural">>,
     genders |-> <<"masculine", "feminine", "neuter">>,
     must_precede |-> {"a^", "i^", "u^", "e"},
     blocks |-> {<<"o">>, <<"t", "o">>, <<"u", "M", "t", "o">>, <<"u", "n", "t", "o">>}, priority |-> 5, confidence |-> 95],
    [suffix |-> <<"h", "i", "M">>, cases |-> <<"instrumental">>,
     numbers |-> <<"plural">>,
     genders |-> <<"masculine", "feminine", "neuter">>,
     must_precede |-> {"a^", "i^", "u^", "e"},
     blocks |-> {<<"M">>, <<"i", "M">>}, priority |-> 3, confidence |-> 85],
    [suffix |-> <<"h", "i", "~">>, cases |-> <<"instrumental">>,
     numbers |-> <<"plural">>,
     genders |-> <<"masculine", "feminine", "neuter">>,
     must_precede |-> {"a^", "i^", "u^", "e"},
     blocks |-> {<<"~">>, <<"i", "~">>}, priority |-> 3, confidence |-> 85],
    [suffix |-> <<"s", "s", "a">>, cases |-> <<"dative", "genitive">>,
     numbers |-> <<"singular">>,
     genders |-> <<"masculine", "neuter">>,
     must_precede |-> {"a", "i", "u"},
     blocks |-> {<<"a">>, <<"s", "a">>}, priority |-> 3, confidence |-> 90],
    [suffix |-> <<"m", "m", "i">>, cases |-> <<"locative">>,
     numbers |-> <<"singular">>,
     genders |-> <<"masculine", "neuter">>,
     must_precede |-> {"a", "i", "u"},
     blocks |-> {<<"i">>, <<"m", "i">>}, priority |-> 3, confidence |-> 90],
    [suffix |-> <<"t", "t", "o">>, cases |-> <<"ablative">>,
     numbers |-> <<"singular", "plural">>,
     genders |-> <<"masculine", "feminine", "neuter">>,
     must_precede |-> {"a", "i", "u", "a^", "i^", "u^"},
     blocks |-> {<<"o">>, <<"t", "o">>}, priority |-> 3, confidence |-> 85],
    [suffix |-> <<"s", "u", "M">>, cases |-> <<"locative">>,
     numbers |-> <<"plural">>,
     genders |-> <<"masculine", "feminine", "neuter">>,
     must_precede |-> {"a^", "i^", "u^", "e"},
     blocks |-> {<<"M">>, <<"u", "M">>}, priority |-> 3, confidence |-> 85],
    [suffix |-> <<"N", "a", "M">>, cases |-> <<"dative", "genitive">>,
     numbers |-> <<"plural">>,
     genders |-> <<"masculine", "feminine", "neuter">>,
     must_precede |-> {"a^", "i^", "u^", "e"},
     blocks |-> {<<"M">>, <<"a", "M">>}, priority |-> 3, confidence |-> 90],
    [suffix |-> <<"i", "M">>, cases |-> <<"nominative", "accusative">>,
     numbers |-> <<"plural">>,
     genders |-> <<"neuter">>,
     must_precede |-> {"a^", "i^", "u^"},
     blocks |-> {<<"M">>}, priority |-> 2, confidence |-> 85],
    [suffix |-> <<"i", "~">>, cases |-> <<"nominative", "accusative">>,
     numbers |-> <<"plural">>,
     genders |-> <<"neuter">>,
     must_precede |-> {"a^", "i^", "u^"},
     blocks |-> {<<"~">>}, priority |-> 2, confidence |-> 80],
    [suffix |-> <<"h", "i">>, cases |-> <<"instrumental">>,
     numbers |-> <<"plural">>,
     genders |-> <<"masculine", "feminine", "neuter">>,
     must_precede |-> {"a^", "i^", "u^", "e"},
     blocks |-> {<<"i">>}, priority |-> 2, confidence |-> 85],
    [suffix |-> <<"s", "u">>, cases |-> <<"locative">>,
     numbers |-> <<"plural">>,
     genders |-> <<"masculine", "feminine", "neuter">>,
     must_precede |-> {"a^", "i^", "u^", "e"},
     blocks |-> {<<"u">>}, priority |-> 2, confidence |-> 85],
    [suffix |-> <<"N", "a">>, cases |-> <<"dative", "genitive">>,
     numbers |-> <<"plural">>,
     genders |-> <<"masculine", "feminine", "neuter">>,
     must_precede |-> {"a^", "i^", "u^", "e"},
     blocks |-> {<<"a">>}, priority |-> 2, confidence |-> 90],
    [suffix |-> <<"N", "o">>, cases |-> <<"nominative", "accusative", "dative", "genitive">>,
     numbers |-> <<"plural (nom/acc)", "singular (dat/gen)">>,
     genders |-> <<"masculine">>,
     must_precede |-> {"i", "u"},
     blocks |-> {<<"o">>}, priority |-> 2, confidence |-> 75],
    [suffix |-> <<"N", "i">>, cases |-> <<"nominative", "accusative">>,
     numbers |-> <<"plural">>,
     genders |-> <<"neuter">>,
     must_precede |-> {"a^", "i^", "u^"},
     blocks |-> {<<"i">>}, priority |-> 2, confidence |-> 80],
    [suffix |-> <<"M">>, cases |-> <<"accusative", "nominative">>,
     numbers |-> <<"singular">>,
     genders |-> <<"masculine", "feminine", "neuter">>,
     must_precede |-> {},
     blocks |-> {}, priority |-> 1, confidence |-> 70],
    [suffix |-> <<"o">>, cases |-> <<"nominative", "vocative", "ablative">>,
     numbers |-> <<"singular (nom/voc)", "plural (abl)">>,
     genders |-> <<"masculine", "feminine">>,
     must_precede |-> {},
     blocks |-> {}, priority |-> 1, confidence |-> 65],
    [suffix |-> <<"e">>, cases |-> <<"nominative", "locative", "vocative">>,
     numbers |-> <<"singular", "plural">>,
     genders |-> <<"masculine", "feminine">>,
     must_precede |-> {},
     blocks |-> {}, priority |-> 1, confidence |-> 60],
    [suffix |-> <<"a">>, cases |-> <<"nominative", "vocative", "instrumental">>,
     numbers |-> <<"singular", "plural">>,
     genders |-> <<"feminine">>,
     must_precede |-> {},
     blocks |-> {}, priority |-> 1, confidence |-> 50]
  >>

verb_endings ==
  <<
    [suffix |-> <<"m", "i">>, person |-> "first", number |-> "singular", tense |-> "present",
     must_precede |-> {}, blocks |-> {}, priority |-> 2, confidence |-> 95],
    [suffix |-> <<"s", "i">>, person |-> "second", number |-> "singular", tense |-> "present",
     must_precede |-> {}, blocks |-> {}, priority |-> 2, confidence |-> 95],
    [suffix |-> <<"s", "e">>, person |-> "second", number |-> "singular", tense |-> "present",
     must_precede |-> {}, blocks |-> {}, priority |-> 2, confidence |-> 85],
    [suffix |-> <<"d", "i">>, person |-> "third", number |-> "singular", tense |-> "present",
     must_precede |-> {}, blocks |-> {}, priority |-> 2, confidence |-> 95],
    [suffix |-> <<"t", "i">>, person |-> "third", number |-> "singular", tense |-> "present",
     must_precede |-> {}, blocks |-> {}, priority |-> 2, confidence |-> 90],
    [suffix |-> <<"m", "o">>, person |-> "first", number |-> "plural", tense |-> "present",
     must_precede |-> {}, blocks |-> {}, priority |-> 2, confidence |-> 95],
    [suffix |-> <<"m", "u">>, person |-> "first", number |-> "plural", tense |-> "present",
     must_precede |-> {}, blocks |-> {}, priority |-> 2, confidence |-> 85],
    [suffix |-> <<"m", "a">>, person |-> "first", number |-> "plural", tense |-> "present",
     must_precede |-> {}, blocks |-> {}, priority |-> 2, confidence |-> 85],
    [suffix |-> <<"h", "a">>, person |-> "second", number |-> "plural", tense |-> "present",
     must_precede |-> {}, blocks |-> {}, priority |-> 2, confidence |-> 95],
    [suffix |-> <<"t", "h", "a">>, person |-> "second", number |-> "plural", tense |-> "present",
     must_precede |-> {}, blocks |-> {}, priority |-> 3, confidence |-> 90],
    [suffix |-> <<"n", "t", "i">>, person |-> "third", number |-> "plural", tense |-> "present",
     must_precede |-> {}, blocks |-> {}, priority |-> 3, confidence |-> 95],
    [suffix |-> <<"n", "t", "e">>, person |-> "third", number |-> "plural", tense |-> "present",
     must_precede |-> {}, blocks |-> {}, priority |-> 3, confidence |-> 85],
    [suffix |-> <<"M", "t", "i">>, person |-> "third", number |-> "plural", tense |-> "present",
     must_precede |-> {}, blocks |-> {}, priority |-> 3, confidence |-> 90],
    [suffix |-> <<"M", "t", "e">>, person |-> "third", number |-> "plural", tense |-> "present",
     must_precede |-> {}, blocks |-> {}, priority |-> 3, confidence |-> 85],
    [suffix |-> <<"h", "i", "m", "i">>, person |-> "first", number |-> "singular", tense |-> "future",
     must_precede |-> {}, blocks |-> {}, priority |-> 4, confidence |-> 95],
    [suffix |-> <<"s", "s", "a", "M">>, person |-> "first", number |-> "singular", tense |-> "future",
     must_precede |-> {}, blocks |-> {}, priority |-> 4, confidence |-> 95],
    [suffix |-> <<"h", "i", "s", "i">>, person |-> "second", number |-> "singular", tense |-> "future",
     must_precede |-> {}, blocks |-> {}, priority |-> 4, confidence |-> 95],
    [suffix |-> <<"h", "i", "m", "o">>, person |-> "first", number |-> "plural", tense |-> "future",
     must_precede |-> {}, blocks |-> {}, priority |-> 4, confidence |-> 95],
    [suffix |-> <<"h", "i", "n", "t", "i">>, person |-> "third", number |-> "plural", tense |-> "future",
     must_precede |-> {}, blocks |-> {}, priority |-> 5, confidence |-> 95],
    [suffix |-> <<"i", "s", "s", "a", "n", "t", "i">>, person |-> "third", number |-> "plural", tense |-> "future",
     must_precede |-> {}, blocks |-> {}, priority |-> 7, confidence |-> 90],
    [suffix |-> <<"s", "I">>, person |-> "all", number |-> "all", tense |-> "past",
     must_precede |-> {}, blocks |-> {}, priority |-> 2, confidence |-> 95],
    [suffix |-> <<"h", "I">>, person |-> "all", number |-> "all", tense |-> "past",
     must_precede |-> {}, blocks |-> {}, priority |-> 2, confidence |-> 95],
    [suffix |-> <<"h", "I", "a">>, person |-> "all", number |-> "all", tense |-> "past",
     must_precede |-> {}, blocks |-> {}, priority |-> 3, confidence |-> 85],
    [suffix |-> <<"I", "a">>, person |-> "all", number |-> "all", tense |-> "past",
     must_precede |-> {}, blocks |-> {}, priority |-> 2, confidence |-> 80],
    [suffix |-> <<"i">>, person |-> "third", number |-> "singular", tense |-> "present",
     must_precede |-> {}, blocks |-> {}, priority |-> 1, confidence |-> 70],
    [suffix |-> <<"e">>, person |-> "third", number |-> "singular", tense |-> "present",
     must_precede |-> {}, blocks |-> {}, priority |-> 1, confidence |-> 70]
  >>

---------------------------------------------------------------------------
(* Input handling *)

\* the characters the regular expression of normalize_input looks ahead for
AnusvaraContext ==
  {"k", "g", "c", "j", "t.", "d.", "t", "d", "n", "p", "b", "m",
   "y", "r", "l", "v", "s", "z", "h"}

\* normalize_input: strip, then 'M' before one of AnusvaraContext becomes 'n'
normalize_input(text) ==
  LET t == strip(text)
  IN  [i \in 1..Len(t) |->
         IF t[i] = "M" /\ i < Len(t) /\ t[i + 1] \in AnusvaraContext
         THEN "n" ELSE t[i]]

\* the Devanagari consonants of the model's texts, with their
\* Harvard-Kyoto letters
DevanagariConsonants ==
  [dev_pa |-> <<"p">>, dev_ca |-> <<"c">>, dev_cha |-> <<"c", "h">>, dev_sa |-> <<"s">>,
   dev_ta |-> <<"t">>, dev_da |-> <<"d">>, dev_va |-> <<"v">>, dev_ha |-> <<"h">>]

\* the dependent vowel signs
DevanagariVowelSigns ==
  [dev_sign_aa |-> <<"A">>, dev_sign_i |-> <<"i">>, dev_sign_u |-> <<"u">>,
   dev_sign_e |-> <<"e">>, dev_sign_o |-> <<"o">>]

\* the independent vowels, the anusvara
DevanagariOthers ==
  [dev_i |-> <<"i">>, dev_anusvara |-> <<"M">>]

\* the characters of the block U+0900..U+097F that the texts hold
DevanagariCharacters ==
  DOMAIN DevanagariConsonants \cup DOMAIN DevanagariVowelSigns
    \cup DOMAIN DevanagariOthers \cup {"dev_virama"}

\* detect_script: 'Devanagari' when a character of the text is in the
\* Devanagari block
detect_script(text) ==
  IF \E i \in 1..Len(text) : text[i] \in DevanagariCharacters
  THEN "Devanagari" ELSE "HK"

\* the import of aksharamukha has succeeded
HAS_AKSHARAMUKHA == TRUE

RECURSIVE aksh_transliterate(_)
\* aksharamukha's transliterate.process('Devanagari', 'HK', text): a
\* consonant is written with its inherent a unless a vowel sign or a
\* virama follows it; every other character is written as it is
aksh_transliterate(text) ==
  IF text = <<>> THEN <<>>
  ELSE IF Head(text) \in DOMAIN DevanagariConsonants
  THEN IF Len(text) > 1 /\ text[2] \in DOMAIN DevanagariVowelSigns
       THEN DevanagariConsonants[Head(text)] \o DevanagariVowelSigns[text[2]]
            \o aksh_transliterate(SubSeq(text, 3, Len(text)))
       ELSE IF Len(text) > 1 /\ text[2] = "dev_virama"
       THEN DevanagariConsonants[Head(text)]
            \o aksh_transliterate(SubSeq(text, 3, Len(text)))
       ELSE DevanagariConsonants[Head(text)] \o <<"a">> \o aksh_transliterate(Tail(text))
  ELSE IF Head(text) \in DOMAIN DevanagariVowelSigns
  THEN DevanagariVowelSigns[Head(text)] \o aksh_transliterate(Tail(text))
  ELSE IF Head(text) \in DOMAIN DevanagariOthers
  THEN DevanagariOthers[Head(text)] \o aksh_transliterate(Tail(text))
  ELSE IF Head(text) = "dev_virama" THEN aksh_transliterate(Tail(text))
  ELSE <<Head(text)>> \o aksh_transliterate(Tail(text))

\* transliterate_to_hk: only a Devanagari text is converted; a text that
\* detect_script calls HK is returned as it is
transliterate_to_hk(text) ==
  IF ~HAS_AKSHARAMUKHA THEN text
  ELSE IF detect_script(text) = "Devanagari" THEN aksh_transliterate(text)
  ELSE text

\* the forbidden dict of validate_prakrit_characters, in its order
forbidden ==
  << [char |-> <<"R">>,           desc |-> "retroflex R"],
     [char |-> <<"R", "R">>,      desc |-> "long retroflex R"],
     [char |-> <<"l", "R">>,      desc |-> "vocalic L"],
     [char |-> <<"l", "R", "R">>, desc |-> "long vocalic L"],
     [char |-> <<"H">>,           desc |-> "visarga"],
     [char |-> <<"S">>,           desc |-> "retroflex S"] >>

NoError == [char |-> Absent, desc |-> "none"]

\* validate_prakrit_characters that names the first entry of forbidden
\* whichever entry occurs in the text
validate_prakrit_characters_FirstEntry(text) ==
  LET hk_text == transliterate_to_hk(text)
      hits == {i \in 1..Len(forbidden) : Contains(hk_text, forbidden[i].char)}
  IN  IF hits = {} THEN <<TRUE, NoError>>
      ELSE <<FALSE, forbidden[1]>>

\* validate_prakrit_characters: <<is_valid, error>>; the error names the
\* first entry of forbidden that occurs in the text
validate_prakrit_characters(text) ==
  LET hk_text == transliterate_to_hk(text)
      hits == {i \in 1..Len(forbidden) : Contains(hk_text, forbidden[i].char)}
  IN  IF hits = {} THEN <<TRUE, NoError>>
      ELSE <<FALSE, forbidden[CHOOSE i \in hits : \A j \in hits : i <= j]>>

---------------------------------------------------------------------------
(* Analyses *)

AbsentTag == "<absent>"

\* an analysis dict with none of its keys set
NoAnalysis ==
  [form |-> Absent, stem |-> Absent, root |-> Absent, suffix |-> Absent,
   ending |-> Absent, case |-> AbsentTag, number |-> AbsentTag,
   gender |-> AbsentTag, tense |-> AbsentTag, person |-> AbsentTag,
   type |-> AbsentTag, source |-> AbsentTag, confidence |-> 0, notes |-> <<>>]

\* analysis.get('suffix') or analysis.get('ending'); a missing key and the
\* empty string are both falsy
SuffixOrEnding(analysis) ==
  IF analysis.suffix # Absent /\ analysis.suffix # <<>> THEN analysis.suffix
  ELSE analysis.ending

HasSuffixOrEnding(analysis) ==
  SuffixOrEnding(analysis) # Absent /\ SuffixOrEnding(analysis) # <<>>

\* check_attested_form: <<>> for None, else the one dict of the first
\* root (stem) in load order whose forms hold the word
check_attested_form(word_hk, form_type) ==
  IF form_type = "verb"
  THEN LET hits == {i \in 1..Len(all_verb_forms) : word_hk \in all_verb_forms[i].forms}
       IN  IF hits = {} THEN <<>>
           ELSE LET first == CHOOSE i \in hits : \A j \in hits : i <= j
                IN  << [NoAnalysis EXCEPT !.root = all_verb_forms[first].root,
                                          !.form = word_hk,
                                          !.source = "attested_verb",
                                          !.confidence = 100] >>
  ELSE LET hits == {i \in 1..Len(all_noun_forms) : word_hk \in DOMAIN all_noun_forms[i].forms}
       IN  IF hits = {} THEN <<>>
           ELSE LET first == CHOOSE i \in hits : \A j \in hits : i <= j
                    found == all_noun_forms[first].forms[word_hk]
                IN  << [NoAnalysis EXCEPT !.stem = all_noun_forms[first].stem,
                                          !.form = word_hk,
                                          !.gender = found.gender,
                                          !.case = found.case,
                                          !.number = found.number,
                                          !.source = "attested_noun",
                                          !.confidence = 100] >>

RECURSIVE ScanSuffixes(_, _, _, _, _)
\* the loop of find_suffix_matches over the sorted rules, from rule i on
ScanSuffixes(word, sorted_suffixes, i, blocked_suffixes, matches) ==
  IF i > Len(sorted_suffixes) THEN matches
  ELSE
    LET info == sorted_suffixes[i]
        suffix == info.suffix
        base == DropLast(word, Len(suffix))
    IN  IF suffix \in blocked_suffixes
        THEN ScanSuffixes(word, sorted_suffixes, i + 1, blocked_suffixes, matches)
        ELSE IF ~EndsWith(word, suffix)
        THEN ScanSuffixes(word, sorted_suffixes, i + 1, blocked_suffixes, matches)
        ELSE IF info.must_precede # {} /\ (base = <<>> \/ Last(base) \notin info.must_precede)
        THEN ScanSuffixes(word, sorted_suffixes, i + 1, blocked_suffixes, matches)
        ELSE ScanSuffixes(word, sorted_suffixes, i + 1,
                          blocked_suffixes \cup info.blocks,
                          Append(matches, [suffix |-> suffix, base |-> base,
                                           info |-> info, priority |-> info.priority]))

\* the (priority, length) sort key of a rule as one number
SuffixSortKey(info) == info.priority * 100 + Len(info.suffix)

\* sorted(suffix_dict.items(), key=(priority, len(suffix)), reverse=True)
SortSuffixes(suffix_dict) ==
  StableSortDesc(suffix_dict, [i \in 1..Len(suffix_dict) |-> SuffixSortKey(suffix_dict[i])])

\* the two tables as find_suffix_matches sorts them; the tables never change
sorted_noun_suffixes == SortSuffixes(noun_suffixes)

sorted_verb_endings == SortSuffixes(verb_endings)

\* find_suffix_matches with blocked_suffixes left out: every rule whose
\* suffix ends the word and whose must_precede check passes is a match
find_suffix_matches_NoBlocks(word, sorted_suffixes) ==
  LET hits == SelectSeq(sorted_suffixes,
                        LAMBDA info :
                          /\ EndsWith(word, info.suffix)
                          /\ \/ info.must_precede = {}
                             \/ /\ DropLast(word, Len(info.suffix)) # <<>>
                                /\ Last(DropLast(word, Len(info.suffix))) \in info.must_precede)
      matches == [k \in 1..Len(hits) |->
                    [suffix |-> hits[k].suffix,
                     base |-> DropLast(word, Len(hits[k].suffix)),
                     info |-> hits[k], priority |-> hits[k].priority]]
  IN  StableSortDesc(matches, [i \in 1..Len(matches) |-> matches[i].priority])

\* find_suffix_matches, given the sorted table
find_suffix_matches(word, sorted_suffixes) ==
  LET matches == ScanSuffixes(word, sorted_suffixes, 1, {}, <<>>)
  IN  StableSortDesc(matches, [i \in 1..Len(matches) |-> matches[i].priority])

valid_endings ==
  {"a", "a^", "A", "i", "i^", "I", "u", "u^", "U", "e", "o", "M", "m.", "~"}

\* is_valid_prakrit_stem with the test of the last character left out
is_valid_prakrit_stem_AnyEnding(stem) ==
  stem # <<>>

\* is_valid_prakrit_stem
is_valid_prakrit_stem(stem) ==
  /\ stem # <<>>
  /\ Last(stem) \in valid_endings

\* reconstruct_noun_stem that appends 'a' to the base for every suffix, as
\* the source does for 'o' and 'e' only
reconstruct_noun_stem_AlwaysA(base, suffix, gender) ==
  IF base = <<>> THEN <<>> ELSE Append(base, "a")

\* reconstruct_noun_stem that shortens the long vowel of the base whatever
\* the gender
reconstruct_noun_stem_ShortensAll(base, suffix, gender) ==
  IF base = <<>> THEN <<>>
  ELSE IF Last(base) = "a^" THEN Append(DropLast(base, 1), "a")
  ELSE IF Last(base) = "i^" THEN Append(DropLast(base, 1), "i")
  ELSE IF Last(base) = "u^" THEN Append(DropLast(base, 1), "u")
  ELSE IF Last(base) = "e" THEN Append(DropLast(base, 1), "a")
  ELSE IF suffix \in {<<"o">>, <<"e">>} THEN Append(base, "a")
  ELSE base

\* reconstruct_noun_stem
reconstruct_noun_stem(base, suffix, gender) ==
  IF base = <<>> THEN <<>>
  ELSE IF suffix \in {<<"h","i","n","t","o">>, <<"h","i","M","t","o">>,
                      <<"s","u","n","t","o">>, <<"s","u","M","t","o">>,
                      <<"h","i">>, <<"h","i","M">>, <<"h","i","~">>,
                      <<"s","u">>, <<"s","u","M">>}
  THEN IF Last(base) = "e" THEN Append(DropLast(base, 1), "a")
       ELSE IF Last(base) = "a^"
       THEN IF gender = "feminine" THEN base ELSE Append(DropLast(base, 1), "a")
       ELSE IF Last(base) = "i^"
       THEN IF gender = "feminine" THEN base ELSE Append(DropLast(base, 1), "i")
       ELSE IF Last(base) = "u^"
       THEN IF gender = "feminine" THEN base ELSE Append(DropLast(base, 1), "u")
       ELSE base
  ELSE IF suffix \in {<<"s","s","a">>, <<"m","m","i">>, <<"N","o">>}
  THEN IF Last(base) \in {"a", "i", "u"} THEN base ELSE Append(base, "a")
  ELSE IF suffix \in {<<"N","a">>, <<"N","a","M">>}
  THEN IF Last(base) = "e" THEN Append(DropLast(base, 1), "a")
       ELSE IF Last(base) = "a^" THEN Append(DropLast(base, 1), "a")
       ELSE IF Last(base) = "i^" THEN Append(DropLast(base, 1), "i")
       ELSE IF Last(base) = "u^" THEN Append(DropLast(base, 1), "u")
       ELSE base
  ELSE IF suffix = <<"t","t","o">>
  THEN IF Last(base) \notin {"a", "i", "u", "a^", "i^", "u^"} THEN Append(base, "a") ELSE base
  ELSE IF suffix = <<"o">> THEN Append(base, "a")
  ELSE IF suffix = <<"e">> THEN Append(base, "a")
  ELSE IF suffix = <<"M">> THEN base
  ELSE base

\* the analyses analyze_as_noun builds for one match and one gender
NounAnalysesOfGender(word_hk, match, gender) ==
  LET info == match.info
      stem == reconstruct_noun_stem(match.base, match.suffix, gender)
      boosted == IF Last(stem) \in {"a", "i", "u", "a^", "i^", "u^"}
                 THEN info.confidence + 5 ELSE info.confidence
  IN  IF stem = <<>> \/ Len(stem) < 2 THEN <<>>
      ELSE IF ~is_valid_prakrit_stem(stem) THEN <<>>
      ELSE Flatten([c \in 1..Len(info.cases) |->
                     [n \in 1..Len(info.numbers) |->
                        [NoAnalysis EXCEPT !.form = word_hk,
                                           !.stem = stem,
                                           !.suffix = match.suffix,
                                           !.case = info.cases[c],
                                           !.number = info.numbers[n],
                                           !.gender = gender,
                                           !.type = "noun",
                                           !.source = "ending_based_guess",
                                           !.confidence = Min(boosted, 100),
                                           !.notes = << <<"Ending-based analysis: suffix suggests",
                                                          info.cases[c], info.numbers[n]>> >>]]])

\* analyze_as_noun
analyze_as_noun(word_hk) ==
  LET attested == check_attested_form(word_hk, "noun")
      suffix_matches == Take(find_suffix_matches(word_hk, sorted_noun_suffixes), 10)
  IN  IF attested # <<>> THEN attested
      ELSE Flatten([m \in 1..Len(suffix_matches) |->
                     Flatten([g \in 1..Len(suffix_matches[m].info.genders) |->
                               NounAnalysesOfGender(word_hk, suffix_matches[m],
                                                    suffix_matches[m].info.genders[g])])])

NoNote == "None"

\* apply_vowel_sandhi_reverse: the list of <<potential_root, sandhi_rule>>
apply_vowel_sandhi_reverse(base) ==
  IF base = <<>> THEN <<>>
  ELSE
    (IF Last(base) = "e"
     THEN << <<Append(DropLast(base, 1), "I"), "e->i^ sandhi">>,
             <<Append(DropLast(base, 1), "i"), "e->i sandhi">> >>
     ELSE <<>>)
    \o
    (IF Last(base) = "o"
     THEN << <<Append(DropLast(base, 1), "U"), "o->u^ sandhi">>,
             <<Append(DropLast(base, 1), "u"), "o->u sandhi">> >>
     ELSE <<>>)
    \o
    (IF Last(base) = "a"
     THEN << <<Append(DropLast(base, 1), "A"), "a->a^ extension">> >>
     ELSE <<>>)
    \o
    << <<Append(base, "A"), "vowel-ending +A">>,
       <<Append(base, "I"), "vowel-ending +I">>,
       <<Append(base, "U"), "vowel-ending +U">>,
       <<Append(base, "a"), "vowel-ending +a">>,
       <<Append(base, "i"), "vowel-ending +i">>,
       <<Append(base, "u"), "vowel-ending +u">> >>

\* the prefixes s[:i] of s that are verb roots, for i from Len(s) down to 1
RootPrefixes(s) ==
  SelectSeq([k \in 1..Len(s) |-> SubSeq(s, 1, Len(s) - k + 1)],
            LAMBDA r : r \in verb_roots)

\* the root_candidates analyze_as_verb collects for one base
root_candidates_of(base) ==
  LET direct == [k \in 1..Len(RootPrefixes(base)) |->
                   [root |-> RootPrefixes(base)[k], method |-> "direct_match",
                    sandhi_note |-> NoNote, confidence_boost |-> 15]]
      sandhi_candidates == apply_vowel_sandhi_reverse(base)
      OfSandhi(candidate_root, sandhi_rule) ==
        (IF candidate_root \in verb_roots
         THEN << [root |-> candidate_root, method |-> "sandhi_reversal",
                  sandhi_note |-> sandhi_rule, confidence_boost |-> 20] >>
         ELSE <<>>)
        \o
        [k \in 1..Len(RootPrefixes(candidate_root)) |->
           [root |-> RootPrefixes(candidate_root)[k], method |-> "sandhi_reversal_partial",
            sandhi_note |-> sandhi_rule, confidence_boost |-> 12]]
      found == direct \o Flatten([k \in 1..Len(sandhi_candidates) |->
                                   OfSandhi(sandhi_candidates[k][1], sandhi_candidates[k][2])])
  IN  IF found = <<>>
      THEN << [root |-> base, method |-> "unattested_guess",
               sandhi_note |-> NoNote, confidence_boost |-> -10] >>
      ELSE found

\* the analysis analyze_as_verb builds for one match and one root candidate
VerbAnalysis(word_hk, match, candidate) ==
  LET info == match.info
      confidence == info.confidence + candidate.confidence_boost
  IN  [NoAnalysis EXCEPT
         !.form = word_hk,
         !.root = candidate.root,
         !.ending = match.suffix,
         !.tense = info.tense,
         !.person = info.person,
         !.number = info.number,
         !.type = "verb",
         !.source = IF candidate.sandhi_note # NoNote THEN "sandhi_analysis"
                    ELSE "ending_based_guess",
         !.confidence = Min(Max(confidence, 10), 100),
         !.notes = IF candidate.sandhi_note # NoNote
                   THEN << <<"Ending-based analysis: root found via vowel sandhi",
                             candidate.sandhi_note>> >>
                   ELSE IF candidate.method = "direct_match"
                   THEN << <<"Ending-based analysis: root found in verb list">> >>
                   ELSE << <<"Ending-based analysis: root not attested - guessed from form">> >>]

\* analyze_as_verb
analyze_as_verb(word_hk) ==
  LET attested == check_attested_form(word_hk, "verb")
      ending_matches == Take(find_suffix_matches(word_hk, sorted_verb_endings), 10)
      OfMatch(match) ==
        LET root_candidates == root_candidates_of(match.base)
            valid == SelectSeq(root_candidates, LAMBDA c : is_valid_prakrit_stem(c.root))
        IN  [k \in 1..Len(valid) |-> VerbAnalysis(word_hk, match, valid[k])]
  IN  IF attested # <<>>
      THEN << [NoAnalysis EXCEPT !.form = word_hk,
                                 !.root = attested[1].root,
                                 !.type = "verb",
                                 !.source = "attested_verb",
                                 !.confidence = 100,
                                 !.notes = << <<"Form attested for root">> >>] >>
      ELSE Flatten([m \in 1..Len(ending_matches) |-> OfMatch(ending_matches[m])])

---------------------------------------------------------------------------
(* Feedback *)

\* AdjustOne with the min(1.0, ...) of the boost left out
AdjustOne_Unclamped(analysis) ==
  LET suffix == SuffixOrEnding(analysis)
      stats == feedback_data.suffix_accuracy[suffix]
      correct == stats.correct
      total == stats.correct + stats.incorrect
  IN  IF ~HasSuffixOrEnding(analysis) THEN analysis
      ELSE IF suffix \notin DOMAIN feedback_data.suffix_accuracy THEN analysis
      ELSE IF total = 0 THEN analysis
      ELSE IF 10 * correct > 8 * total /\ correct >= 3
      THEN [analysis EXCEPT !.confidence = analysis.confidence + 10,
                            !.notes = Append(analysis.notes,
                                             <<"Confidence boosted by user feedback">>)]
      ELSE IF 10 * correct < 3 * total /\ total >= 3
      THEN [analysis EXCEPT !.confidence = Max(10, analysis.confidence - 15),
                            !.notes = Append(analysis.notes,
                                             <<"Confidence reduced by user feedback">>)]
      ELSE analysis

\* AdjustOne that boosts and reduces however few observations the suffix
\* has
AdjustOne_NoMinimum(analysis) ==
  LET suffix == SuffixOrEnding(analysis)
      stats == feedback_data.suffix_accuracy[suffix]
      correct == stats.correct
      total == stats.correct + stats.incorrect
  IN  IF ~HasSuffixOrEnding(analysis) THEN analysis
      ELSE IF suffix \notin DOMAIN feedback_data.suffix_accuracy THEN analysis
      ELSE IF total = 0 THEN analysis
      ELSE IF 10 * correct > 8 * total
      THEN [analysis EXCEPT !.confidence = Min(100, analysis.confidence + 10),
                            !.notes = Append(analysis.notes,
                                             <<"Confidence boosted by user feedback">>)]
      ELSE IF 10 * correct < 3 * total
      THEN [analysis EXCEPT !.confidence = Max(10, analysis.confidence - 15),
                            !.notes = Append(analysis.notes,
                                             <<"Confidence reduced by user feedback">>)]
      ELSE analysis

\* the adjustment apply_learned_adjustments makes to one analysis, in a
\* parser whose feedback_data is data
AdjustOneIn(data, analysis) ==
  LET suffix == SuffixOrEnding(analysis)
      stats == data.suffix_accuracy[suffix]
      correct == stats.correct
      total == stats.correct + stats.incorrect
  IN  IF ~HasSuffixOrEnding(analysis) THEN analysis
      ELSE IF suffix \notin DOMAIN data.suffix_accuracy THEN analysis
      ELSE IF total = 0 THEN analysis
      \* accuracy > 0.8 and correct >= 3
      ELSE IF 10 * correct > 8 * total /\ correct >= 3
      THEN [analysis EXCEPT !.confidence = Min(100, analysis.confidence + 10),
                            !.notes = Append(analysis.notes,
                                             <<"Confidence boosted by user feedback">>)]
      \* accuracy < 0.3 and total >= 3
      ELSE IF 10 * correct < 3 * total /\ total >= 3
      THEN [analysis EXCEPT !.confidence = Max(10, analysis.confidence - 15),
                            !.notes = Append(analysis.notes,
                                             <<"Confidence reduced by user feedback">>)]
      ELSE analysis

\* the adjustment apply_learned_adjustments makes to one analysis
AdjustOne(analysis) ==
  AdjustOneIn(feedback_data, analysis)

\* sort(key=confidence, reverse=True)
SortByConfidence(analyses) ==
  StableSortDesc(analyses, [i \in 1..Len(analyses) |-> analyses[i].confidence])

\* apply_learned_adjustments
apply_learned_adjustments(analyses) ==
  SortByConfidence([i \in 1..Len(analyses) |-> AdjustOne(analyses[i])])

---------------------------------------------------------------------------
(* parse *)

MaxAnalyses == 15

\* parse that counts in total_found the analyses it returns, not the ones
\* it found
parse_CountsReturned(text) ==
  LET validation == validate_prakrit_characters(text)
      word_hk == transliterate_to_hk(normalize_input(text))
      noun_analyses == analyze_as_noun(word_hk)
      verb_analyses == analyze_as_verb(word_hk)
      all_analyses == apply_learned_adjustments(SortByConfidence(noun_analyses \o verb_analyses))
  IN  IF ~validation[1]
      THEN [op |-> "parse", success |-> FALSE, error |-> validation[2],
            hk_form |-> Absent, script |-> AbsentTag,
            analyses |-> <<>>, total_found |-> 0]
      ELSE [op |-> "parse", success |-> TRUE, error |-> NoError,
            hk_form |-> word_hk, script |-> detect_script(text),
            analyses |-> Take(all_analyses, MaxAnalyses),
            total_found |-> Len(Take(all_analyses, MaxAnalyses))]

\* parse that skips the noun stage when the form is attested as a verb
parse_VerbAttestedOnly(text) ==
  LET validation == validate_prakrit_characters(text)
      word_hk == transliterate_to_hk(normalize_input(text))
      verb_analyses == analyze_as_verb(word_hk)
      noun_analyses == IF check_attested_form(word_hk, "verb") # <<>> THEN <<>>
                       ELSE analyze_as_noun(word_hk)
      all_analyses == apply_learned_adjustments(SortByConfidence(noun_analyses \o verb_analyses))
  IN  IF ~validation[1]
      THEN [op |-> "parse", success |-> FALSE, error |-> validation[2],
            hk_form |-> Absent, script |-> AbsentTag,
            analyses |-> <<>>, total_found |-> 0]
      ELSE [op |-> "parse", success |-> TRUE, error |-> NoError,
            hk_form |-> word_hk, script |-> detect_script(text),
            analyses |-> Take(all_analyses, MaxAnalyses),
            total_found |-> Len(all_analyses)]

\* parse: the dict it returns.  The error dict holds no hk_form, script,
\* analyses or total_found key: Absent, AbsentTag, <<>> and 0 stand for them
parse(text) ==
  LET validation == validate_prakrit_characters(text)
      word_hk == transliterate_to_hk(normalize_input(text))
      noun_analyses == analyze_as_noun(word_hk)
      verb_analyses == analyze_as_verb(word_hk)
      all_analyses == apply_learned_adjustments(SortByConfidence(noun_analyses \o verb_analyses))
  IN  IF ~validation[1]
      THEN [op |-> "parse", success |-> FALSE, error |-> validation[2],
            hk_form |-> Absent, script |-> AbsentTag,
            analyses |-> <<>>, total_found |-> 0]
      ELSE [op |-> "parse", success |-> TRUE, error |-> NoError,
            hk_form |-> word_hk, script |-> detect_script(text),
            analyses |-> Take(all_analyses, MaxAnalyses),
            total_found |-> Len(all_analyses)]

---------------------------------------------------------------------------
(* verb_analyzer.py *)

\* all_endings of analyze_endings: present, future and past endings, in
\* their order; confidences in hundredths
all_endings ==
  <<
    [ending |-> <<"m", "i">>, person |-> "first", number |-> "singular", tense |-> "present", confidence |-> 100],
    [ending |-> <<"s", "i">>, person |-> "second", number |-> "singular", tense |-> "present", confidence |-> 100],
    [ending |-> <<"s", "e">>, person |-> "second", number |-> "singular", tense |-> "present", confidence |-> 90],
    [ending |-> <<"d", "i">>, person |-> "third", number |-> "singular", tense |-> "present", confidence |-> 100],
    [ending |-> <<"i">>, person |-> "third", number |-> "singular", tense |-> "present", confidence |-> 90],
    [ending |-> <<"e">>, person |-> "third", number |-> "singular", tense |-> "present", confidence |-> 90],
    [ending |-> <<"a", "e">>, person |-> "third", number |-> "singular", tense |-> "present", confidence |-> 85],
    [ending |-> <<"m", "o">>, person |-> "first", number |-> "plural", tense |-> "present", confidence |-> 100],
    [ending |-> <<"m", "u">>, person |-> "first", number |-> "plural", tense |-> "present", confidence |-> 90],
    [ending |-> <<"m", "a">>, person |-> "first", number |-> "plural", tense |-> "present", confidence |-> 90],
    [ending |-> <<"h", "a">>, person |-> "second", number |-> "plural", tense |-> "present", confidence |-> 100],
    [ending |-> <<"t", "h", "a">>, person |-> "second", number |-> "plural", tense |-> "present", confidence |-> 90],
    [ending |-> <<"n", "t", "i">>, person |-> "third", number |-> "plural", tense |-> "present", confidence |-> 100],
    [ending |-> <<"n", "t", "e">>, person |-> "third", number |-> "plural", tense |-> "present", confidence |-> 90],
    [ending |-> <<"m", "h", "i">>, person |-> "first", number |-> "singular", tense |-> "present", confidence |-> 80],
    [ending |-> <<"h", "i", "m", "i">>, person |-> "first", number |-> "singular", tense |-> "future", confidence |-> 100],
    [ending |-> <<"s", "s", "a", "M">>, person |-> "first", number |-> "singular", tense |-> "future", confidence |-> 100],
    [ending |-> <<"s", "s", "A", "m", "i">>, person |-> "first", number |-> "singular", tense |-> "future", confidence |-> 90],
    [ending |-> <<"i", "s", "s", "a", "M">>, person |-> "first", number |-> "singular", tense |-> "future", confidence |-> 90],
    [ending |-> <<"i", "s", "s", "A", "m", "i">>, person |-> "first", number |-> "singular", tense |-> "future", confidence |-> 90],
    [ending |-> <<"h", "i", "s", "i">>, person |-> "second", number |-> "singular", tense |-> "future", confidence |-> 100],
    [ending |-> <<"h", "i", "s", "e">>, person |-> "second", number |-> "singular", tense |-> "future", confidence |-> 90],
    [ending |-> <<"i", "s", "s", "a", "s", "i">>, person |-> "second", number |-> "singular", tense |-> "future", confidence |-> 90],
    [ending |-> <<"h", "i">>, person |-> "third", number |-> "singular", tense |-> "future", confidence |-> 100],
    [ending |-> <<"h", "i", "i">>, person |-> "third", number |-> "singular", tense |-> "future", confidence |-> 90],
    [ending |-> <<"i", "s", "s", "a", "_", "e">>, person |-> "third", number |-> "singular", tense |-> "future", confidence |-> 90],
    [ending |-> <<"h", "i", "e">>, person |-> "third", number |-> "singular", tense |-> "future", confidence |-> 90],
    [ending |-> <<"i", "s", "s", "a", "_", "i">>, person |-> "third", number |-> "singular", tense |-> "future", confidence |-> 90],
    [ending |-> <<"h", "i", "m", "o">>, person |-> "first", number |-> "plural", tense |-> "future", confidence |-> 100],
    [ending |-> <<"h", "i", "m", "u">>, person |-> "first", number |-> "plural", tense |-> "future", confidence |-> 90],
    [ending |-> <<"h", "i", "m", "a">>, person |-> "first", number |-> "plural", tense |-> "future", confidence |-> 90],
    [ending |-> <<"i", "s", "s", "A", "m", "o">>, person |-> "first", number |-> "plural", tense |-> "future", confidence |-> 90],
    [ending |-> <<"h", "i", "t", "t", "h", "A">>, person |-> "second", number |-> "plural", tense |-> "future", confidence |-> 100],
    [ending |-> <<"h", "i", "h", "a">>, person |-> "second", number |-> "plural", tense |-> "future", confidence |-> 90],
    [ending |-> <<"i", "s", "s", "a", "t", "h", "a">>, person |-> "second", number |-> "plural", tense |-> "future", confidence |-> 90],
    [ending |-> <<"h", "i", "n", "t", "i">>, person |-> "third", number |-> "plural", tense |-> "future", confidence |-> 100],
    [ending |-> <<"h", "i", "n", "t", "e">>, person |-> "third", number |-> "plural", tense |-> "future", confidence |-> 90],
    [ending |-> <<"i", "s", "s", "a", "n", "t", "i">>, person |-> "third", number |-> "plural", tense |-> "future", confidence |-> 90],
    [ending |-> <<"i", "s", "s", "a", "n", "t", "e">>, person |-> "third", number |-> "plural", tense |-> "future", confidence |-> 90],
    [ending |-> <<"s", "I">>, person |-> "all", number |-> "all", tense |-> "past", confidence |-> 100],
    [ending |-> <<"h", "I">>, person |-> "all", number |-> "all", tense |-> "past", confidence |-> 100],
    [ending |-> <<"h", "I", "a">>, person |-> "all", number |-> "all", tense |-> "past", confidence |-> 90],
    [ending |-> <<"I", "a">>, person |-> "all", number |-> "all", tense |-> "past", confidence |-> 90],
    [ending |-> <<"i", "t", "t", "a">>, person |-> "all", number |-> "all", tense |-> "past", confidence |-> 80],
    [ending |-> <<"i", "y", "a">>, person |-> "all", number |-> "all", tense |-> "past", confidence |-> 80]
  >>

\* the prefixes of identify_prefix, in their order
prefixes ==
  <<
    [prefix |-> <<"p", "a">>, sanskrit |-> <<"p", "r", "a">>],
    [prefix |-> <<"p", "a", "d.", "i">>, sanskrit |-> <<"p", "r", "a", "t", "i">>],
    [prefix |-> <<"p", "a", "r", "i">>, sanskrit |-> <<"p", "a", "r", "i">>],
    [prefix |-> <<"s", "a", "m.">>, sanskrit |-> <<"s", "a", "m">>],
    [prefix |-> <<"v", "i">>, sanskrit |-> <<"v", "i">>],
    [prefix |-> <<"a^">>, sanskrit |-> <<"a^">>],
    [prefix |-> <<"n", "i">>, sanskrit |-> <<"n", "i">>],
    [prefix |-> <<"u">>, sanskrit |-> <<"u", "d">>],
    [prefix |-> <<"a", "n.", "u">>, sanskrit |-> <<"a", "n", "u">>]
  >>

\* identify_prefix: the first prefix of the table the form starts with, or
\* <<>> when there is none
identify_prefix(verb_form) ==
  LET hits == {i \in 1..Len(prefixes) : StartsWith(verb_form, prefixes[i].prefix)}
  IN  IF hits = {} THEN <<>>
      ELSE << prefixes[CHOOSE i \in hits : \A j \in hits : i <= j] >>

\* the stops of the patterns of is_valid_prakrit_sequence
Stops == {"k", "g", "c", "j", "t.", "d.", "t", "d", "p", "b"}

\* is_valid_prakrit_sequence: no stop next to a stop, no stop-h-stop
is_valid_prakrit_sequence(text) ==
  /\ ~\E i \in 1..(Len(text) - 1) : text[i] \in Stops /\ text[i + 1] \in Stops
  /\ ~\E i \in 1..(Len(text) - 2) :
        text[i] \in Stops /\ text[i + 1] = "h" /\ text[i + 2] \in Stops

\* apply_sandhi_rules
apply_sandhi_rules(stem, ending) ==
  IF stem # <<>> /\ Last(stem) = "i" /\ ending # <<>> /\ Head(ending) = "a"
  THEN stem \o <<"y">> \o ending
  ELSE IF stem # <<>> /\ Last(stem) = "u" /\ ending # <<>> /\ Head(ending) = "a"
  THEN stem \o <<"v">> \o ending
  ELSE stem \o ending

\* confidences of analyze_endings are counted in this many parts of 1.0, so
\* that 0.05 * (len(matched_root) / len(potential_root)) is a whole number
\* for every root of up to 12 characters
EndingUnit == 100 * 5544

vowels == {"a", "e", "i", "o", "u", "A", "E", "I", "O", "U"}

\* [ending] plus the anusvara variant analyze_endings also tries
endings_to_check(ending) ==
  IF ending = <<"n","t","i">> THEN <<ending, <<"M","t","i">> >>
  ELSE IF ending = <<"n","t","e">> THEN <<ending, <<"M","t","e">> >>
  ELSE <<ending>>

\* the longest prefix of potential_root in VERB_ROOTS, else the longest
\* prefix of potential_root without its final e or i; <<>> when none
matched_root_of(potential_root, roots) ==
  LET Longest(s) ==
        LET lens == {i \in 1..Len(s) : SubSeq(s, 1, i) \in roots}
        IN  IF lens = {} THEN <<>>
            ELSE SubSeq(s, 1, CHOOSE i \in lens : \A j \in lens : j <= i)
  IN  IF Longest(potential_root) # <<>> THEN Longest(potential_root)
      ELSE IF potential_root # <<>> /\ Last(potential_root) \in {"e", "i"}
      THEN Longest(DropLast(potential_root, 1))
      ELSE <<>>

\* the match analyze_endings builds, with its confidence logic
EndingMatch(info, potential_root, test_ending, prefix, roots, sandhi_applied) ==
  LET matched_root == matched_root_of(potential_root, roots)
      base == IF sandhi_applied THEN (info.confidence * 5544 * 9) \div 10
              ELSE info.confidence * 5544
      boost == 15 * 5544 + (5 * 5544 * Len(matched_root)) \div Max(1, Len(potential_root))
  IN  [ending |-> test_ending, potential_root |-> potential_root,
       root |-> matched_root, prefix |-> prefix,
       tense |-> info.tense, person |-> info.person, number |-> info.number,
       sandhi_applied |-> sandhi_applied, attested |-> FALSE,
       confidence |-> IF matched_root # <<>> THEN Min(base + boost, EndingUnit)
                      ELSE Max(base - 20 * 5544, 10 * 5544)]

\* analyze_endings, over the attested forms and the roots of the module;
\* <<>> stands for None
analyze_endings(whole_form, forms, roots) ==
  LET found == identify_prefix(whole_form)
      prefix == IF found = <<>> THEN <<>> ELSE found[1].prefix
      verb_form == SubSeq(whole_form, Len(prefix) + 1, Len(whole_form))
      hits == {i \in 1..Len(forms) : verb_form \in forms[i].forms}
      attested_root == forms[CHOOSE i \in hits : \A j \in hits : i <= j].root
      Attested(info) ==
        IF EndsWith(verb_form, info.ending)
        THEN << [ending |-> info.ending, potential_root |-> attested_root,
                 root |-> attested_root, prefix |-> prefix,
                 tense |-> info.tense, person |-> info.person, number |-> info.number,
                 sandhi_applied |-> FALSE, attested |-> TRUE,
                 confidence |-> Min(info.confidence * 5544 + 25 * 5544, EndingUnit)] >>
        ELSE <<>>
      attested_matches ==
        IF hits = {} \/ attested_root = <<>> THEN <<>>
        ELSE Flatten([e \in 1..Len(all_endings) |-> Attested(all_endings[e])])
      Filtered(info, potential_root) ==
        \/ (potential_root # <<>> /\ Last(potential_root) = "a")
        \/ (info.ending = <<"i">> /\ (potential_root = <<>> \/ Last(potential_root) \notin vowels))
      Direct(info, test_ending) ==
        LET potential_root == DropLast(verb_form, Len(test_ending))
        IN  IF ~EndsWith(verb_form, test_ending) THEN <<>>
            ELSE IF Filtered(info, potential_root) THEN <<>>
            ELSE IF ~is_valid_prakrit_sequence(potential_root) THEN <<>>
            ELSE << EndingMatch(info, potential_root, test_ending, prefix, roots, FALSE) >>
      Sandhi(info, test_ending, i) ==
        LET potential_root == DropLast(verb_form, i)
            sandhi_form == apply_sandhi_rules(potential_root, info.ending)
            sandhi_form_M == apply_sandhi_rules(potential_root, test_ending)
        IN  IF Filtered(info, potential_root) THEN <<>>
            ELSE IF ~is_valid_prakrit_sequence(potential_root) THEN <<>>
            ELSE IF \/ sandhi_form = verb_form
                    \/ (test_ending # info.ending /\ sandhi_form_M = verb_form)
            THEN << EndingMatch(info, potential_root, test_ending, prefix, roots, TRUE) >>
            ELSE <<>>
      PerEnding(Of(_, _)) ==
        Flatten([e \in 1..Len(all_endings) |->
                  Flatten([t \in 1..Len(endings_to_check(all_endings[e].ending)) |->
                            Of(all_endings[e], endings_to_check(all_endings[e].ending)[t])])])
      SandhiOf(info, test_ending) ==
        Flatten([i \in 1..(Min(4, Len(verb_form)) - 1) |-> Sandhi(info, test_ending, i)])
      possible_matches == PerEnding(Direct) \o PerEnding(SandhiOf)
      ByConfidence(ms) == StableSortDesc(ms, [i \in 1..Len(ms) |-> ms[i].confidence])
  IN  IF attested_matches # <<>> THEN ByConfidence(attested_matches)
      ELSE ByConfidence(possible_matches)

---------------------------------------------------------------------------
(* record_feedback *)

\* suffix_accuracy with an entry for suffix, as the code creates it
WithEntry(suffix_accuracy, suffix) ==
  IF suffix \in DOMAIN suffix_accuracy THEN suffix_accuracy
  ELSE suffix_accuracy @@ (suffix :> [correct |-> 0, incorrect |-> 0])

RECURSIVE MarkOthers(_, _, _, _)
\* the loop of record_feedback over all_analyses, from analysis i on
MarkOthers(suffix_accuracy, correct_analysis, all_analyses, i) ==
  IF i > Len(all_analyses) THEN suffix_accuracy
  ELSE IF all_analyses[i] = correct_analysis
  THEN MarkOthers(suffix_accuracy, correct_analysis, all_analyses, i + 1)
  ELSE IF ~HasSuffixOrEnding(all_analyses[i])
  THEN MarkOthers(suffix_accuracy, correct_analysis, all_analyses, i + 1)
  ELSE LET other_suffix == SuffixOrEnding(all_analyses[i])
           entry == WithEntry(suffix_accuracy, other_suffix)
       IN  MarkOthers([entry EXCEPT ![other_suffix].incorrect = @ + 1],
                      correct_analysis, all_analyses, i + 1)

\* the feedback_data that record_feedback makes of data; form_corrections
\* keeps, for each word, how many corrections its list holds
record_feedback_in(data, word, correct_analysis, all_analyses) ==
  LET corrections == data.form_corrections
      form_corrections == IF word \in DOMAIN corrections
                          THEN [corrections EXCEPT ![word] = @ + 1]
                          ELSE corrections @@ (word :> 1)
      correct_suffix == SuffixOrEnding(correct_analysis)
      entry == WithEntry(data.suffix_accuracy, correct_suffix)
      suffix_accuracy ==
        IF HasSuffixOrEnding(correct_analysis)
        THEN MarkOthers([entry EXCEPT ![correct_suffix].correct = @ + 1],
                        correct_analysis, all_analyses, 1)
        ELSE data.suffix_accuracy
  IN  [form_corrections |-> form_corrections,
       suffix_accuracy |-> suffix_accuracy,
       total_feedback |-> data.total_feedback + 1]

\* feedback_data after the updates of record_feedback
record_feedback(word, correct_analysis, all_analyses) ==
  record_feedback_in(feedback_data, word, correct_analysis, all_analyses)

\* the feedback_data load_feedback_data sets when it cannot read the file
EmptyFeedback ==
  [form_corrections |-> <<>>, suffix_accuracy |-> <<>>, total_feedback |-> 0]

\* user_feedback.json before anything was saved
NoFeedbackFile == [exists |-> FALSE, data |-> EmptyFeedback]

\* load_feedback_data: the data of the file, or EmptyFeedback without one
load_feedback_data ==
  IF feedback_file.exists THEN feedback_file.data ELSE EmptyFeedback

\* user_feedback.json after save_feedback_data has written data, or has
\* failed to open the file
save_feedback_data(data, saved) ==
  IF saved THEN [exists |-> TRUE, data |-> data] ELSE feedback_file

\* the analyses parse returns for a valid text in a parser whose
\* feedback_data is data
analyses_in(data, text) ==
  LET word_hk == transliterate_to_hk(normalize_input(text))
      found == SortByConfidence(analyze_as_noun(word_hk) \o analyze_as_verb(word_hk))
  IN  Take(SortByConfidence([i \in 1..Len(found) |-> AdjustOneIn(data, found[i])]),
           MaxAnalyses)

---------------------------------------------------------------------------
(* The data the parser is constructed over *)

\* a small attested index in the shape of the repository's databases
SampleVerbForms ==
  << [root |-> <<"p","u","c","c","h">>,
      forms |-> {<<"p","u","c","c","h","i","s","s","a","M","t","i">>,
                 <<"p","u","c","c","h","a","i">>,
                 <<"d","e","v","e","h","i","n","t","o">>}],
     [root |-> <<"h","o">>,
      forms |-> {<<"h","o","i">>, <<"h","o","M","t","i">>, <<"h","o","e","h","i">>}] >>

SampleNounForms ==
  << [stem |-> <<"d","h","a","m","m","a">>,
      forms |-> (<<"d","h","a","m","m","o">> :>
                   [gender |-> "masculine", case |-> "nominative", number |-> "singular"])],
     [stem |-> <<"m","A","l","A">>,
      forms |-> (<<"m","A","l","A","o">> :>
                   [gender |-> "feminine", case |-> "nominative", number |-> "plural"])],
     [stem |-> <<"m","A","l","a">>,
      forms |-> (<<"m","A","l","A","o">> :>
                   [gender |-> "masculine", case |-> "ablative", number |-> "singular"])] >>

SampleVerbRoots ==
  {<<"p","u","c","c","h">>, <<"h","o">>, <<"h","u">>, <<"N","I">>, <<"k","a","r","a">>}

\* the data files at start-up: all of them can be read, or none
DataFiles ==
  { [verbs1 |-> TRUE, verb_forms |-> TRUE, noun_forms |-> TRUE],
    [verbs1 |-> FALSE, verb_forms |-> FALSE, noun_forms |-> FALSE] }

\* load_verb_roots: the roots of verbs1.json, or set() when it cannot be read
load_verb_roots(files) ==
  IF files.verbs1 THEN SampleVerbRoots ELSE {}

\* load_verb_forms_db: the verb forms of the database or of the JSON file,
\* or {} when neither can be read
load_verb_forms_db(files) ==
  IF files.verb_forms THEN SampleVerbForms ELSE <<>>

\* load_noun_forms_db: the noun forms of the database or of the JSON file,
\* or {} when neither can be read
load_noun_forms_db(files) ==
  IF files.noun_forms THEN SampleNounForms ELSE <<>>

\* the tables load_data leaves in the parser
Lexicons ==
  { [files |-> files, verbs |-> load_verb_forms_db(files),
     nouns |-> load_noun_forms_db(files), roots |-> load_verb_roots(files)] :
    files \in DataFiles }

\* the bases the submitted words are built on
Bases ==
  { <<"d","e","v","a">>, <<"d","e","v","e">>, <<"d","e","v","a^">>, <<"d","e","v","A">>,
    <<"m","u","N","i">>, <<"h","o">>, <<"N","e">>, <<"p","u","c","c","h">> }

\* what follows a base: nothing, a noun suffix or a verb ending of the tables
Tails ==
  {<<>>} \cup {noun_suffixes[i].suffix : i \in 1..Len(noun_suffixes)}
         \cup {verb_endings[i].suffix : i \in 1..Len(verb_endings)}

\* texts with white space, forbidden characters, attested forms
OtherWords ==
  { <<>>, <<" ">>, <<"k">>, <<" ", "k", "a", "H">>, <<"S", "a", "H">>, <<"R", "k">>,
    <<"k", "a", "S">>, <<" ", "h", "o", "i", " ">>,
    <<"d","h","a","m","m","o">>, <<"r","A","m","A","o">>, <<"m","A","l","A","o">>,
    <<"d","e","v","I","a">>,
    <<"p","u","c","c","h","i","s","s","a","M","t","i">>,
    <<"h","o","e","h","i">>, <<"g","a","c","c","h","a","d","i">>,
    <<"v","i","h","o","i">>, <<"p","a","d.","i","h","o","i">>, <<"k","a","r","i","a","n","t","i">>,
    <<"d","a","M","D","a">>,
    <<"dev_pa","dev_sign_u","dev_ca","dev_virama","dev_cha","dev_sign_i","dev_sa",
      "dev_virama","dev_sa","dev_anusvara","dev_ta","dev_sign_i">>,
    <<"dev_da","dev_sign_e","dev_va","dev_sign_o">>,
    <<"dev_ha","dev_sign_o","dev_i">> }

\* the texts submitted to parse
Words == {b \o t : b \in Bases, t \in Tails} \cup OtherWords

\* the words whose analyses a caller gives feedback on
FeedbackWords ==
  { <<"g","a","c","c","h","a","d","i">>, <<"r","A","m","A","o">>, <<"h","o","e","h","i">> }

\* the words parsed and given feedback on while the feedback file is
\* shared with feedback_cli.py and the parser is restarted
StoreWords ==
  { <<"g","a","c","c","h","a","d","i">>, <<"h","o","e","h","i">> }

---------------------------------------------------------------------------
(* The state machine *)

NoRequest == [op |-> "none", text |-> <<>>, done |-> TRUE]

NoResponse == [op |-> "none"]

MaxFeedback == 3

\* __init__: load_data, then load_feedback_data with no saved file
Init ==
  /\ \E lexicon \in Lexicons :
       /\ data_files = lexicon.files
       /\ all_verb_forms = lexicon.verbs
       /\ all_noun_forms = lexicon.nouns
       /\ verb_roots = lexicon.roots
       /\ ALL_VERB_FORMS = lexicon.verbs
       /\ VERB_ROOTS = lexicon.roots
  /\ feedback_file = NoFeedbackFile
  /\ feedback_data = EmptyFeedback
  /\ call_stack = <<>>
  /\ request = NoRequest
  /\ response = NoResponse

\* a caller passes a text to parse or to analyze_endings
Submit(op, text) ==
  /\ request = NoRequest
  /\ request' = [op |-> op, text |-> text, done |-> FALSE]
  /\ response' = NoResponse
  /\ UNCHANGED <<call_stack, data_files, all_verb_forms, all_noun_forms, verb_roots, VERB_ROOTS, ALL_VERB_FORMS,
                 feedback_data, feedback_file>>

\* PrakritUnifiedParser.parse runs on the text and returns
Parse ==
  /\ ~request.done
  /\ request.op = "parse"
  /\ response' = parse(request.text)
  /\ request' = [request EXCEPT !.done = TRUE]
  /\ UNCHANGED <<call_stack, data_files, all_verb_forms, all_noun_forms, verb_roots, VERB_ROOTS, ALL_VERB_FORMS,
                 feedback_data, feedback_file>>

\* verb_analyzer.analyze_endings runs on the text and returns
AnalyzeEndings ==
  /\ ~request.done
  /\ request.op = "analyze_endings"
  /\ response' = [op |-> "analyze_endings",
                  matches |-> analyze_endings(request.text, ALL_VERB_FORMS, VERB_ROOTS)]
  /\ request' = [request EXCEPT !.done = TRUE]
  /\ UNCHANGED <<call_stack, data_files, all_verb_forms, all_noun_forms, verb_roots, VERB_ROOTS, ALL_VERB_FORMS,
                 feedback_data, feedback_file>>

\* the caller marks the k-th analysis of the last parse as the correct one:
\* PrakritUnifiedParser.record_feedback, the save to disk succeeding or not
RecordFeedback(k, saved) ==
  /\ request.done
  /\ request.text \in FeedbackWords
  /\ response.op = "parse"
  /\ response.success
  /\ k \in 1..Len(response.analyses)
  /\ feedback_data.total_feedback < MaxFeedback
  /\ feedback_data' = record_feedback(request.text, response.analyses[k], response.analyses)
  /\ feedback_file' = save_feedback_data(feedback_data', saved)
  /\ request' = [op |-> "record_feedback", text |-> request.text, done |-> TRUE,
                 caller |-> "app", correct_index |-> k]
  /\ response' = [op |-> "record_feedback", success |-> saved,
                  total_feedback |-> IF saved THEN feedback_data'.total_feedback ELSE 0]
  /\ UNCHANGED <<call_stack, data_files, all_verb_forms, all_noun_forms, verb_roots, VERB_ROOTS, ALL_VERB_FORMS>>

\* the caller has taken the answer; nothing is in flight
Return ==
  /\ request.done
  /\ request # NoRequest
  /\ request' = NoRequest
  /\ response' = NoResponse
  /\ UNCHANGED <<call_stack, data_files, all_verb_forms, all_noun_forms, verb_roots, VERB_ROOTS, ALL_VERB_FORMS,
                 feedback_data, feedback_file>>

Next ==
  \/ \E op \in {"parse", "analyze_endings"}, text \in Words : Submit(op, text)
  \/ Parse
  \/ AnalyzeEndings
  \/ Return
  \/ \E k \in 1..MaxAnalyses : RecordFeedback(k, TRUE)

\* the parser over a feedback file that can be written; failing saves,
\* the second writer and restarts are the steps of NextStore
Spec == Init /\ [][Next]_vars

\* feedback_cli.py: a process of its own constructs a parser, which loads
\* the feedback file, parses the word, records the k-th analysis as the
\* correct one and saves the file
CliFeedback(text, k, saved) ==
  /\ request = NoRequest
  /\ load_feedback_data.total_feedback < MaxFeedback
  /\ \E data \in {load_feedback_data} :
       \E analyses \in {analyses_in(data, text)} :
         /\ k \in 1..Len(analyses)
         /\ feedback_file' =
              save_feedback_data(record_feedback_in(data, text, analyses[k], analyses), saved)
         /\ response' = [op |-> "record_feedback", success |-> saved,
                         total_feedback |-> IF saved THEN data.total_feedback + 1 ELSE 0]
  /\ request' = [op |-> "record_feedback", text |-> text, done |-> TRUE,
                 caller |-> "cli", correct_index |-> k]
  /\ UNCHANGED <<call_stack, data_files, all_verb_forms, all_noun_forms, verb_roots, VERB_ROOTS, ALL_VERB_FORMS,
                 feedback_data>>

\* the application is started again: __init__ loads the same databases
\* and load_feedback_data reads the feedback file
Restart ==
  /\ request = NoRequest
  /\ feedback_data' = load_feedback_data
  /\ UNCHANGED <<call_stack, data_files, all_verb_forms, all_noun_forms, verb_roots, VERB_ROOTS, ALL_VERB_FORMS,
                 feedback_file, request, response>>

\* the parser with the feedback file shared and restarts
NextStore ==
  \/ \E text \in StoreWords : Submit("parse", text)
  \/ Parse
  \/ Return
  \/ \E k \in 1..MaxAnalyses, saved \in BOOLEAN : RecordFeedback(k, saved)
  \/ \E text \in StoreWords, k \in 1..MaxAnalyses, saved \in BOOLEAN :
       CliFeedback(text, k, saved)
  \/ Restart

SpecStore == Init /\ [][NextStore]_vars

---------------------------------------------------------------------------
(* analyze_app.py: the recursion of analyze_noun_form *)

\* the characters the first regular expression of normalize_anusvara looks
\* ahead for
NounAnusvaraContext ==
  {"k", "g", "c", "j", "T", "D", "N", "t", "d", "n", "p", "b", "m",
   "y", "r", "l", "v", "s", "z", "h"}

\* normalize_anusvara: 'M' before one of NounAnusvaraContext becomes 'n',
\* then 'M' before 'ti' or 'te' becomes 'n'
normalize_anusvara(text) ==
  LET first == [i \in 1..Len(text) |->
                  IF text[i] = "M" /\ i < Len(text) /\ text[i + 1] \in NounAnusvaraContext
                  THEN "n" ELSE text[i]]
  IN  [i \in 1..Len(first) |->
         IF /\ first[i] = "M"
            /\ i + 2 <= Len(first)
            /\ first[i + 1] = "t"
            /\ first[i + 2] \in {"i", "e"}
         THEN "n" ELSE first[i]]

\* the vowels a hiatus pattern looks for after its first vowel
HiatusVowels == {"a", "e", "i", "o", "u"}

\* the first vowels of the hiatus_patterns, in their order
hiatus_patterns == <<"a", "i", "u", "e", "o">>

RECURSIVE HiatusSub_InsertsVowel(_, _)
\* HiatusSub that writes the vowel i where [y]? belongs
HiatusSub_InsertsVowel(vowel, text) ==
  IF text = <<>> THEN <<>>
  ELSE IF Len(text) > 1 /\ text[1] = vowel /\ text[2] \in HiatusVowels
  THEN <<vowel, "i", text[2]>>
       \o HiatusSub_InsertsVowel(vowel, SubSeq(text, 3, Len(text)))
  ELSE <<Head(text)>> \o HiatusSub_InsertsVowel(vowel, Tail(text))

RECURSIVE HiatusSub(_, _)
\* re.sub(vowel + '([aeiou])', vowel + '[y]?\1', text): from the left, each
\* match takes the two vowels and writes [y]? between them
HiatusSub(vowel, text) ==
  IF text = <<>> THEN <<>>
  ELSE IF Len(text) > 1 /\ text[1] = vowel /\ text[2] \in HiatusVowels
  THEN <<vowel, "[", "y", "]", "?", text[2]>>
       \o HiatusSub(vowel, SubSeq(text, 3, Len(text)))
  ELSE <<Head(text)>> \o HiatusSub(vowel, Tail(text))

RECURSIVE HiatusVariations(_, _)
\* the loop of handle_hiatus_y from pattern p on: every variation so far,
\* and every variation so far with the pattern applied
HiatusVariations(variations, p) ==
  IF p > Len(hiatus_patterns) THEN variations
  ELSE HiatusVariations(
         variations \cup {HiatusSub(hiatus_patterns[p], v) : v \in variations}, p + 1)

\* handle_hiatus_y: the set of the variations, the text itself among them
handle_hiatus_y(text) ==
  HiatusVariations({text}, 1)

\* a call of analyze_noun_form that has just been entered
NounFormCall(word) ==
  [hk_word |-> transliterate_to_hk(word), stage |-> "anusvara", variations |-> {}]

---------------------------------------------------------------------------
(* Properties of parse and analyze_endings *)

\* parse has returned to the caller
Answered ==
  /\ request.done
  /\ request.op = "parse"
  /\ response.op = "parse"

\* parse has returned a result, not an error
ParseOK == Answered /\ response.success

\* C1: every candidate in the analyses parse returns has a confidence
\* between 0 and 1 (0 and 100 hundredths), whatever feedback has been
\* recorded, and every match analyze_endings returns has a confidence
\* between 0 and 1 (0 and EndingUnit).
C1_ConfidenceInUnitInterval ==
  /\ response.op = "parse" =>
       \A i \in 1..Len(response.analyses) :
         response.analyses[i].confidence \in 0..100
  /\ response.op = "analyze_endings" =>
       \A i \in 1..Len(response.matches) :
         response.matches[i].confidence \in 0..EndingUnit

\* C1 witness: after feedback, parse returns a candidate that the learned
\* boost has taken to the cap of 1.0
C1_BoostedToCap ==
  /\ ParseOK
  /\ feedback_data.total_feedback > 0
  /\ \E i \in 1..Len(response.analyses) :
       /\ response.analyses[i].confidence = 100
       /\ \E k \in 1..Len(response.analyses[i].notes) :
            response.analyses[i].notes[k] = <<"Confidence boosted by user feedback">>

C3_BlockedSuffixNeverUsed ==
  ParseOK =>
    LET word == response.hk_form
        Applies(info) ==
          /\ EndsWith(word, info.suffix)
          /\ \/ info.must_precede = {}
             \/ /\ DropLast(word, Len(info.suffix)) # <<>>
                /\ Last(DropLast(word, Len(info.suffix))) \in info.must_precede
        BlockedBy(table) ==
          UNION {table[i].blocks : i \in {j \in 1..Len(table) : Applies(table[j])}}
        noun_matches == find_suffix_matches(word, sorted_noun_suffixes)
        verb_matches == find_suffix_matches(word, sorted_verb_endings)
    IN  /\ \A k \in 1..Len(noun_matches) :
             noun_matches[k].suffix \notin BlockedBy(noun_suffixes)
        /\ \A k \in 1..Len(verb_matches) :
             verb_matches[k].suffix \notin BlockedBy(verb_endings)
        /\ \A i \in 1..Len(response.analyses) :
             /\ response.analyses[i].suffix \notin BlockedBy(noun_suffixes)
             /\ response.analyses[i].ending \notin BlockedBy(verb_endings)

\* C3 witness: parse returns a noun candidate built on a rule that blocks
\* another rule which itself matches the word
C3_BlockingRuleMatched ==
  /\ ParseOK
  /\ \E i \in 1..Len(response.analyses), r \in 1..Len(noun_suffixes),
        b \in 1..Len(noun_suffixes) :
       /\ response.analyses[i].suffix = noun_suffixes[r].suffix
       /\ noun_suffixes[b].suffix \in noun_suffixes[r].blocks
       /\ EndsWith(response.hk_form, noun_suffixes[b].suffix)
       /\ \/ noun_suffixes[b].must_precede = {}
          \/ /\ DropLast(response.hk_form, Len(noun_suffixes[b].suffix)) # <<>>
             /\ Last(DropLast(response.hk_form, Len(noun_suffixes[b].suffix)))
                  \in noun_suffixes[b].must_precede

\* C4 as stated: if the input form, in Harvard-Kyoto spelling, is a key of
\* the attested verb index (noun index), the first verb (noun) candidate
\* parse returns has confidence 1.0 and an attested source.
C4_AttestedFormOnTop ==
  ParseOK =>
    LET word == strip(request.text)
        nouns == SelectSeq(response.analyses, LAMBDA a : a.stem # Absent)
        verbs == SelectSeq(response.analyses, LAMBDA a : a.root # Absent)
    IN  /\ (\E i \in 1..Len(all_verb_forms) : word \in all_verb_forms[i].forms) =>
             /\ verbs # <<>>
             /\ verbs[1].confidence = 100
             /\ verbs[1].source = "attested_verb"
        /\ (\E i \in 1..Len(all_noun_forms) : word \in DOMAIN all_noun_forms[i].forms) =>
             /\ nouns # <<>>
             /\ nouns[1].confidence = 100
             /\ nouns[1].source = "attested_noun"

\* C5 as stated: when parse finds the form attested for a word class, the
\* attested candidate is in the analyses returned and stands before every
\* candidate that is not attested, of either word class.
C5_AttestedBeforeHeuristic ==
  ParseOK =>
    \A class \in {"noun", "verb"} :
      check_attested_form(response.hk_form, class) # <<>> =>
        \E i \in 1..Len(response.analyses) :
          /\ response.analyses[i].source =
               (IF class = "noun" THEN "attested_noun" ELSE "attested_verb")
          /\ \A j \in 1..Len(response.analyses) :
               response.analyses[j].source \notin {"attested_noun", "attested_verb"} => i < j

\* C6 as stated: for every stem (root) of the attested index under which
\* the form is attested, parse returns an attested candidate with that
\* stem (root).
C6_OneCandidatePerAttestedStem ==
  ParseOK =>
    /\ \A i \in 1..Len(all_noun_forms) :
         response.hk_form \in DOMAIN all_noun_forms[i].forms =>
           \E k \in 1..Len(response.analyses) :
             /\ response.analyses[k].source = "attested_noun"
             /\ response.analyses[k].stem = all_noun_forms[i].stem
    /\ \A i \in 1..Len(all_verb_forms) :
         response.hk_form \in all_verb_forms[i].forms =>
           \E k \in 1..Len(response.analyses) :
             /\ response.analyses[k].source = "attested_verb"
             /\ response.analyses[k].root = all_verb_forms[i].root

\* C7 as stated: for a non-empty input that passes validation, the analyses
\* parse returns hold at least one candidate.
C7_AtLeastOneCandidate ==
  (ParseOK /\ strip(request.text) # <<>>) => Len(response.analyses) >= 1

\* C8 as stated: for an empty or white-space-only input, parse returns
\* success = false.
C8_EmptyInputIsError ==
  (Answered /\ strip(request.text) = <<>>) => ~response.success

\* C9: if the input holds R, H or S, parse returns success = false, no
\* analyses and nothing of the later stages, and an error that names a
\* forbidden character occurring in the input: H when neither R nor S
\* occurs.
C9_ForbiddenCharacterRejected ==
  (Answered /\ \E c \in {"R", "H", "S"} : Contains(request.text, <<c>>)) =>
    /\ ~response.success
    /\ response.analyses = <<>>
    /\ response.total_found = 0
    /\ response.hk_form = Absent
    /\ response.error # NoError
    /\ Contains(request.text, response.error.char)
    /\ (~Contains(request.text, <<"R">>) /\ ~Contains(request.text, <<"S">>)) =>
         response.error.char = <<"H">>

\* C9 witness: parse has rejected an input whose only forbidden character
\* is the visarga, and the error names it
C9_VisargaNamed ==
  /\ Answered
  /\ Contains(request.text, <<"H">>)
  /\ ~Contains(request.text, <<"R">>)
  /\ ~Contains(request.text, <<"S">>)
  /\ ~response.success
  /\ response.error.char = <<"H">>

\* C10 as stated: no noun candidate parse returns is feminine with a stem
\* ending in short a.
C10_NoFeminineShortAStem ==
  ParseOK =>
    \A i \in 1..Len(response.analyses) :
      LET a == response.analyses[i]
      IN  ~ /\ a.gender = "feminine"
            /\ a.stem # Absent
            /\ a.stem # <<>>
            /\ Last(a.stem) = "a"

\* C11 as stated: for an unattested word S + 'o' where S ends in the long
\* vowel A, parse returns a noun candidate with stem S, gender feminine and
\* case ablative.
C11_FeminineLongAStem ==
  (/\ ParseOK
   /\ check_attested_form(response.hk_form, "noun") = <<>>
   /\ Len(response.hk_form) >= 2
   /\ Last(response.hk_form) = "o"
   /\ Last(DropLast(response.hk_form, 1)) = "A") =>
    \E i \in 1..Len(response.analyses) :
      /\ response.analyses[i].stem = DropLast(response.hk_form, 1)
      /\ response.analyses[i].gender = "feminine"
      /\ response.analyses[i].case = "ablative"

\* C12 as stated: for an unattested word B + 'o' whose only matching noun
\* suffix is 'o', parse returns a noun candidate with stem B + 'a', case
\* nominative, number singular and gender masculine, each tag being that
\* plain value.
C12_NominativeSingularMasculine ==
  (/\ ParseOK
   /\ check_attested_form(response.hk_form, "noun") = <<>>
   /\ Len(response.hk_form) >= 2
   /\ LET noun_matches == find_suffix_matches(response.hk_form, sorted_noun_suffixes)
      IN  /\ Len(noun_matches) = 1
          /\ noun_matches[1].suffix = <<"o">>) =>
    \E i \in 1..Len(response.analyses) :
      /\ response.analyses[i].stem = Append(DropLast(response.hk_form, 1), "a")
      /\ response.analyses[i].case = "nominative"
      /\ response.analyses[i].number = "singular"
      /\ response.analyses[i].gender = "masculine"

\* C13: in a successful parse result, total_found is the number of noun
\* candidates plus the number of verb candidates, and analyses holds the
\* first min(15, total_found) of them in non-increasing order of the
\* confidence they have after the feedback adjustment: it is ordered, each
\* of its elements is one of the adjusted candidates, counted as often as
\* it was found, and no candidate left out has a higher confidence than
\* the last one returned.
C13_TotalFoundAndTop15 ==
  ParseOK =>
    LET found == analyze_as_noun(response.hk_form) \o analyze_as_verb(response.hk_form)
        adjusted == [i \in 1..Len(found) |-> AdjustOne(found[i])]
        returned == response.analyses
        Count(list, a) == Cardinality({i \in 1..Len(list) : list[i] = a})
    IN  /\ response.total_found = Len(found)
        /\ Len(returned) = (IF Len(found) < 15 THEN Len(found) ELSE 15)
        /\ \A i \in 1..(Len(returned) - 1) :
             returned[i].confidence >= returned[i + 1].confidence
        /\ \A i \in 1..Len(returned) :
             Count(returned, returned[i]) <= Count(adjusted, returned[i])
        /\ \A j \in 1..Len(adjusted) :
             Count(returned, adjusted[j]) < Count(adjusted, adjusted[j]) =>
               /\ returned # <<>>
               /\ adjusted[j].confidence <= returned[Len(returned)].confidence

\* C13 witness: parse found more than 15 candidates, nouns and verbs, and
\* returned 15 of them
C13_MoreFoundThanReturned ==
  /\ ParseOK
  /\ response.total_found > 15
  /\ Len(response.analyses) = 15
  /\ analyze_as_noun(response.hk_form) # <<>>
  /\ analyze_as_verb(response.hk_form) # <<>>

\* C14: if the form is attested for one word class, the candidates parse
\* returns for that class are the attested candidate alone, and the
\* candidates it returns for the other class are those of the other
\* class's own stage, in their order of confidence (all of them when
\* nothing was cut by the limit of 15).
C14_ShortCircuitPerClass ==
  ParseOK =>
    LET nouns == SelectSeq(response.analyses, LAMBDA a : a.stem # Absent)
        verbs == SelectSeq(response.analyses, LAMBDA a : a.root # Absent)
        Stage(found) == apply_learned_adjustments(SortByConfidence(found))
        IsStart(part, whole) ==
          /\ Len(part) <= Len(whole)
          /\ part = SubSeq(whole, 1, Len(part))
          /\ response.total_found <= 15 => part = whole
    IN  /\ check_attested_form(response.hk_form, "noun") # <<>> =>
             /\ Len(nouns) = 1
             /\ nouns[1].source = "attested_noun"
             /\ IsStart(verbs, Stage(analyze_as_verb(response.hk_form)))
        /\ check_attested_form(response.hk_form, "verb") # <<>> =>
             /\ Len(verbs) = 1
             /\ verbs[1].source = "attested_verb"
             /\ IsStart(nouns, Stage(analyze_as_noun(response.hk_form)))

\* C14 witness: the form is attested as a verb and not as a noun, and
\* parse returns the attested verb candidate next to suffix-rule noun
\* candidates
C14_AttestedVerbWithNounGuesses ==
  /\ ParseOK
  /\ check_attested_form(response.hk_form, "verb") # <<>>
  /\ check_attested_form(response.hk_form, "noun") = <<>>
  /\ \E i \in 1..Len(response.analyses) :
       /\ response.analyses[i].type = "noun"
       /\ response.analyses[i].source = "ending_based_guess"

\* C15 as stated: two Harvard-Kyoto inputs that differ only in writing a
\* nasal before a consonant as M or as n, at any number of positions, get
\* the same hk_form and the same analyses from parse.
C15_AnusvaraEquivalence ==
  ParseOK =>
    LET text == request.text
        positions == {i \in 1..(Len(text) - 1) :
                        /\ text[i] \in {"M", "n"}
                        /\ text[i + 1] \in {"k", "g", "G", "c", "j", "J", "T", "D", "N",
                                            "t", "d", "n", "p", "b", "m", "y", "r", "l",
                                            "v", "z", "s", "h"}}
        Rewritten(flip) ==
          [i \in 1..Len(text) |->
             IF i \in flip THEN (IF text[i] = "M" THEN "n" ELSE "M") ELSE text[i]]
    IN  \A flip \in SUBSET positions :
          /\ parse(Rewritten(flip)).success
          /\ parse(Rewritten(flip)).hk_form = response.hk_form
          /\ parse(Rewritten(flip)).analyses = response.analyses

\* C16: every noun candidate built on the rule 'M' or the rule 'a' has a
\* stem that, followed by the suffix, is the analysed word.
C16_StemPlusSuffixIsWord ==
  ParseOK =>
    \A i \in 1..Len(response.analyses) :
      LET a == response.analyses[i]
      IN  (a.type = "noun" /\ a.suffix \in {<<"M">>, <<"a">>}) =>
            a.stem \o a.suffix = response.hk_form

\* C16 witness: parse returns a noun candidate built on the rule 'M'
C16_AccusativeCandidate ==
  /\ ParseOK
  /\ \E i \in 1..Len(response.analyses) :
       /\ response.analyses[i].type = "noun"
       /\ response.analyses[i].suffix = <<"M">>
       /\ response.analyses[i].source = "ending_based_guess"

---------------------------------------------------------------------------
(* Properties of the feedback store *)

\* C17 as stated: a record_feedback call that returns success adds 1 to
\* the correct counter of the suffix or ending of the chosen candidate and
\* 1 to the incorrect counter of the suffix or ending of every other
\* candidate of the batch that has one, also when the chosen candidate has
\* none; no other counter changes.
C17_CountersFollowTheBatch ==
  [][(/\ response.op = "parse"
      /\ response'.op = "record_feedback"
      /\ response'.success) =>
       LET batch == response.analyses
           k == request'.correct_index
           old == feedback_data.suffix_accuracy
           new == feedback_data'.suffix_accuracy
           Correct(counters, s) == IF s \in DOMAIN counters THEN counters[s].correct ELSE 0
           Incorrect(counters, s) == IF s \in DOMAIN counters THEN counters[s].incorrect ELSE 0
           Others(s) == {i \in 1..Len(batch) :
                           /\ i # k
                           /\ HasSuffixOrEnding(batch[i])
                           /\ SuffixOrEnding(batch[i]) = s}
           suffixes == DOMAIN old \cup DOMAIN new \cup
                       {SuffixOrEnding(batch[i]) :
                          i \in {j \in 1..Len(batch) : HasSuffixOrEnding(batch[j])}}
       IN  \A s \in suffixes :
             /\ Correct(new, s) =
                  Correct(old, s) +
                  (IF HasSuffixOrEnding(batch[k]) /\ SuffixOrEnding(batch[k]) = s
                   THEN 1 ELSE 0)
             /\ Incorrect(new, s) = Incorrect(old, s) + Cardinality(Others(s))]_vars

\* C18 as stated: a record_feedback call that returns success = false
\* leaves the parser's feedback_data as it was before the call.
C18_FailedFeedbackChangesNothing ==
  [][(/\ response.op = "parse"
      /\ response'.op = "record_feedback"
      /\ ~response'.success) =>
       feedback_data' = feedback_data]_vars

\* C19 as stated: when parsers share the feedback file, every
\* record_feedback call that returns success leaves in the file the
\* counters and the total_feedback that were persisted before it with this
\* submission added: no submission persisted earlier is lost.
C19_NoLostUpdate ==
  [][(/\ response.op # "record_feedback"
      /\ response'.op = "record_feedback"
      /\ response'.success) =>
       \A batch \in {IF request'.caller = "app" THEN response.analyses
                      ELSE analyses_in(load_feedback_data, request'.text)} :
       \A due \in {record_feedback_in(load_feedback_data, request'.text,
                                      batch[request'.correct_index], batch)} :
       LET new == feedback_file'.data
       IN  /\ feedback_file'.exists
           /\ new.total_feedback >= due.total_feedback
           /\ \A s \in DOMAIN due.suffix_accuracy :
                /\ s \in DOMAIN new.suffix_accuracy
                /\ new.suffix_accuracy[s].correct >= due.suffix_accuracy[s].correct
                /\ new.suffix_accuracy[s].incorrect >= due.suffix_accuracy[s].incorrect]_vars

\* C20 as stated: over parse calls, record_feedback calls whose save
\* succeeds or fails, and restarts that reload the feedback file, no
\* correct or incorrect counter of the parser's feedback_data and not its
\* total_feedback ever decreases.
C20_CountersNeverDecrease ==
  [][/\ feedback_data'.total_feedback >= feedback_data.total_feedback
     /\ \A s \in DOMAIN feedback_data.suffix_accuracy :
          /\ s \in DOMAIN feedback_data'.suffix_accuracy
          /\ feedback_data'.suffix_accuracy[s].correct >=
               feedback_data.suffix_accuracy[s].correct
          /\ feedback_data'.suffix_accuracy[s].incorrect >=
               feedback_data.suffix_accuracy[s].incorrect]_vars

---------------------------------------------------------------------------
(* Properties of the learned adjustments *)

\* the analyses parse has found for the text of the request, before
\* apply_learned_adjustments
FoundForRequest ==
  LET word_hk == transliterate_to_hk(normalize_input(request.text))
  IN  SortByConfidence(analyze_as_noun(word_hk) \o analyze_as_verb(word_hk))

\* the observations recorded for the suffix or ending of an analysis
Observations(analysis) ==
  IF ~HasSuffixOrEnding(analysis) THEN 0
  ELSE IF SuffixOrEnding(analysis) \notin DOMAIN feedback_data.suffix_accuracy THEN 0
  ELSE feedback_data.suffix_accuracy[SuffixOrEnding(analysis)].correct
       + feedback_data.suffix_accuracy[SuffixOrEnding(analysis)].incorrect

\* C21: apply_learned_adjustments changes the confidence of a candidate by
\* at most 0.15 (15 hundredths) up or down, and leaves it unchanged for a
\* candidate whose suffix or ending has no feedback entry or fewer than 3
\* recorded observations; parse returns the candidates so adjusted.
C21_AdjustmentBounded ==
  ParseOK =>
    \A found \in {FoundForRequest} :
      /\ \A i \in 1..Len(found) :
           /\ AdjustOne(found[i]).confidence - found[i].confidence \in -15..15
           /\ Observations(found[i]) < 3 =>
                AdjustOne(found[i]).confidence = found[i].confidence
      /\ response.analyses =
           Take(SortByConfidence([i \in 1..Len(found) |-> AdjustOne(found[i])]),
                MaxAnalyses)

\* C21 witness: parse has returned one candidate that the feedback took
\* down by 0.15 and one whose suffix or ending has fewer than 3
\* observations, at the confidence it was found with
C21_ReducedAndTooFewObservations ==
  /\ ParseOK
  /\ \E found \in {FoundForRequest} :
       /\ \E i \in 1..Len(found) :
            AdjustOne(found[i]).confidence = found[i].confidence - 15
       /\ \E i \in 1..Len(found) :
            /\ HasSuffixOrEnding(found[i])
            /\ Observations(found[i]) < 3
            /\ AdjustOne(found[i]).confidence = found[i].confidence

---------------------------------------------------------------------------
(* Properties of start-up *)

\* C22 as stated: when the verb-root list, the attested verb index or the
\* attested noun index could not be loaded at start-up, the parser is not
\* constructed and parse is never answered: every answer of parse comes
\* from a parser whose three loads succeeded.
C22_NoParseAfterFailedLoad ==
  Answered =>
    /\ data_files.verbs1
    /\ data_files.verb_forms
    /\ data_files.noun_forms

---------------------------------------------------------------------------
(* Properties of verb_analyzer.py *)

\* analyze_endings has returned to the caller
EndingsAnswered ==
  /\ request.done
  /\ request.op = "analyze_endings"
  /\ response.op = "analyze_endings"

\* C23 as stated: identify_prefix returns the longest prefix of its table
\* that the verb form starts with (for a form that starts with 'pad.i',
\* <<'pad.i', 'prati'>> and not the shorter <<'pa', 'pra'>>), and it is
\* the prefix the matches of analyze_endings carry.
C23_LongestPrefixIdentified ==
  EndingsAnswered =>
    LET hits == {k \in 1..Len(prefixes) : StartsWith(request.text, prefixes[k].prefix)}
        found == identify_prefix(request.text)
    IN  hits # {} =>
          /\ found # <<>>
          /\ \A k \in hits : Len(prefixes[k].prefix) <= Len(found[1].prefix)
          /\ \A i \in 1..Len(response.matches) :
               \A k \in hits : Len(prefixes[k].prefix) <= Len(response.matches[i].prefix)

---------------------------------------------------------------------------
(* Properties of the sandhi stage of analyze_as_verb *)

\* the sandhi rules apply_vowel_sandhi_reverse names
SandhiRules ==
  {"e->i^ sandhi", "e->i sandhi", "o->u^ sandhi", "o->u sandhi", "a->a^ extension",
   "vowel-ending +A", "vowel-ending +I", "vowel-ending +U",
   "vowel-ending +a", "vowel-ending +i", "vowel-ending +u"}

\* the candidate's root was found by reversing a vowel sandhi
BySandhi(analysis) ==
  analysis.type = "verb" /\ analysis.source = "sandhi_analysis"

\* the candidate's root was matched directly in the verb-root list
ByDirectMatch(analysis) ==
  /\ analysis.type = "verb"
  /\ analysis.source = "ending_based_guess"
  /\ analysis.notes # <<>>
  /\ analysis.notes[1] = <<"Ending-based analysis: root found in verb list">>

\* C24 as stated: among the candidates parse returns, one whose root was
\* found by sandhi reversal never has a higher confidence than one for the
\* same ending whose root was matched directly in the verb-root list, and
\* its notes name the sandhi rule that was reversed.
C24_SandhiIsAPenalty ==
  ParseOK =>
    \A i \in 1..Len(response.analyses) :
      BySandhi(response.analyses[i]) =>
        /\ \E rule \in SandhiRules :
             response.analyses[i].notes[1] =
               <<"Ending-based analysis: root found via vowel sandhi", rule>>
        /\ \A j \in 1..Len(response.analyses) :
             (/\ ByDirectMatch(response.analyses[j])
              /\ response.analyses[j].ending = response.analyses[i].ending) =>
               response.analyses[i].confidence <= response.analyses[j].confidence

---------------------------------------------------------------------------
(* Properties of the size of the learned shift *)

\* the correct count recorded for the suffix or ending of an analysis
CorrectCount(analysis) ==
  IF Observations(analysis) = 0 THEN 0
  ELSE feedback_data.suffix_accuracy[SuffixOrEnding(analysis)].correct

\* what apply_learned_adjustments adds to the confidence of an analysis
Shift(analysis) ==
  AdjustOne(analysis).confidence - analysis.confidence

\* twice the distance of the accuracy from 0.5, times the observations
Distance(analysis) ==
  IF 2 * CorrectCount(analysis) >= Observations(analysis)
  THEN 2 * CorrectCount(analysis) - Observations(analysis)
  ELSE Observations(analysis) - 2 * CorrectCount(analysis)

\* C25 as stated: for a suffix or ending with at least 3 observations the
\* shift apply_learned_adjustments makes is proportional to
\* (accuracy - 0.5): it is zero only at accuracy 0.5, positive for every
\* accuracy above 0.5 unless the confidence is 1.0 already, negative for
\* every accuracy below 0.5, and larger the further the accuracy is from
\* 0.5.
C25_ShiftProportionalToAccuracy ==
  ParseOK =>
    \A found \in {FoundForRequest} :
      \A i \in 1..Len(found) :
        Observations(found[i]) >= 3 =>
          /\ 2 * CorrectCount(found[i]) = Observations(found[i]) => Shift(found[i]) = 0
          /\ 2 * CorrectCount(found[i]) > Observations(found[i]) =>
               (Shift(found[i]) > 0 \/ found[i].confidence = 100)
          /\ 2 * CorrectCount(found[i]) < Observations(found[i]) => Shift(found[i]) < 0
          /\ \A j \in 1..Len(found) :
               (/\ Observations(found[j]) >= 3
                /\ found[i].confidence = found[j].confidence
                /\ (2 * CorrectCount(found[i]) > Observations(found[i]))
                     = (2 * CorrectCount(found[j]) > Observations(found[j]))
                /\ Distance(found[i]) * Observations(found[j])
                     > Distance(found[j]) * Observations(found[i])) =>
                 (Shift(found[i]) - Shift(found[j]) # 0 \/ found[i].confidence = 100)

---------------------------------------------------------------------------
(* Properties of the scripts *)

\* what a caller compares of an analysis: stem or root, tags, source and
\* confidence
Compared(analysis) ==
  [stem |-> analysis.stem, root |-> analysis.root, case |-> analysis.case,
   number |-> analysis.number, gender |-> analysis.gender, tense |-> analysis.tense,
   person |-> analysis.person, type |-> analysis.type, source |-> analysis.source,
   confidence |-> analysis.confidence]

\* C26 as stated: for a Devanagari input d whose transliteration to
\* Harvard-Kyoto is h, parse(d) and parse(h) return the same hk_form and
\* the same analyses (stems or roots, tags, sources, confidences).
C26_SameResultInBothScripts ==
  (ParseOK /\ response.script = "Devanagari") =>
    \A in_hk \in {parse(aksh_transliterate(request.text))} :
      /\ in_hk.success
      /\ in_hk.hk_form = response.hk_form
      /\ Len(in_hk.analyses) = Len(response.analyses)
      /\ \A i \in 1..Len(response.analyses) :
           Compared(in_hk.analyses[i]) = Compared(response.analyses[i])

---------------------------------------------------------------------------
(* The calls of analyze_noun_form *)

\* the forms passed to analyze_noun_form
NounWords ==
  { <<"m","u","N","i">>, <<"s","a","M","t","i">>, <<"M","M","t","i">>,
    <<"a","i","a">>, <<"d","e","v","a","o">>, <<"r","a","M","M","t","i","a","e">> }

\* the call in progress, and the calls that wait for it
ActiveCall == call_stack[Len(call_stack)]

\* the calls that wait with one call replaced by what it has become
WithActiveCall(call) == [call_stack EXCEPT ![Len(call_stack)] = call]

\* a caller passes a form to analyze_noun_form
AnalyzeNounForm(word) ==
  /\ call_stack = <<>>
  /\ request = NoRequest
  /\ call_stack' = <<NounFormCall(word)>>
  /\ UNCHANGED <<data_files, all_verb_forms, all_noun_forms, verb_roots, VERB_ROOTS,
                 ALL_VERB_FORMS, feedback_data, feedback_file, request, response>>

\* stage 2: analyze_noun_form calls itself on the normalized form when it
\* differs from hk_word, and goes on with the hiatus variations
AnusvaraStage ==
  /\ call_stack # <<>>
  /\ ActiveCall.stage = "anusvara"
  /\ LET hk_word == ActiveCall.hk_word
         normalized_word == normalize_anusvara(hk_word)
         waiting == WithActiveCall([ActiveCall EXCEPT !.stage = "hiatus",
                                                      !.variations = handle_hiatus_y(hk_word)])
     IN  call_stack' = IF normalized_word # hk_word
                       THEN Append(waiting, NounFormCall(normalized_word))
                       ELSE waiting
  /\ UNCHANGED <<data_files, all_verb_forms, all_noun_forms, verb_roots, VERB_ROOTS,
                 ALL_VERB_FORMS, feedback_data, feedback_file, request, response>>

\* stage 3: the loop takes the next variation, in the order of the set,
\* and analyze_noun_form calls itself on it when it differs from hk_word
HiatusStage ==
  /\ call_stack # <<>>
  /\ ActiveCall.stage = "hiatus"
  /\ \E variation \in ActiveCall.variations :
       LET waiting == WithActiveCall([ActiveCall EXCEPT !.variations = @ \ {variation}])
       IN  call_stack' = IF variation # ActiveCall.hk_word
                         THEN Append(waiting, NounFormCall(variation))
                         ELSE waiting
  /\ UNCHANGED <<data_files, all_verb_forms, all_noun_forms, verb_roots, VERB_ROOTS,
                 ALL_VERB_FORMS, feedback_data, feedback_file, request, response>>

\* the variations are done: the call runs its fallback stages and returns
ReturnNounForm ==
  /\ call_stack # <<>>
  /\ ActiveCall.stage = "hiatus"
  /\ ActiveCall.variations = {}
  /\ call_stack' = SubSeq(call_stack, 1, Len(call_stack) - 1)
  /\ UNCHANGED <<data_files, all_verb_forms, all_noun_forms, verb_roots, VERB_ROOTS,
                 ALL_VERB_FORMS, feedback_data, feedback_file, request, response>>

\* a step of the calls in progress
NounFormStep ==
  AnusvaraStage \/ HiatusStage \/ ReturnNounForm

NextNounForm ==
  \/ \E word \in NounWords : AnalyzeNounForm(word)
  \/ AnusvaraStage
  \/ HiatusStage
  \/ ReturnNounForm

\* analyze_noun_form runs in one thread: a call in progress takes its
\* next step
SpecNounForm == Init /\ [][NextNounForm]_vars /\ WF_vars(NounFormStep)

---------------------------------------------------------------------------
(* Properties of analyze_noun_form *)

\* the occurrences of an anusvara before a consonant of normalize_anusvara
AnusvaraBeforeConsonant(text) ==
  Cardinality({i \in 1..(Len(text) - 1) :
                 text[i] = "M" /\ text[i + 1] \in NounAnusvaraContext})

\* the pairs of adjacent vowels a hiatus pattern matches
AdjacentVowelPairs(text) ==
  Cardinality({i \in 1..(Len(text) - 1) :
                 text[i] \in HiatusVowels /\ text[i + 1] \in HiatusVowels})

\* the anusvara letters of a text
AnusvaraLetters(text) ==
  Cardinality({i \in 1..Len(text) : text[i] = "M"})

\* C27 as stated: every call analyze_noun_form makes to itself is on a
\* form with strictly fewer anusvara-before-consonant occurrences or
\* strictly fewer adjacent-vowel pairs than its caller's form, and the
\* depth of the recursion is bounded by those counts in the input.
C27_FewerOccurrencesPerCall ==
  /\ \A k \in 2..Len(call_stack) :
       \/ AnusvaraBeforeConsonant(call_stack[k].hk_word)
            < AnusvaraBeforeConsonant(call_stack[k - 1].hk_word)
       \/ AdjacentVowelPairs(call_stack[k].hk_word)
            < AdjacentVowelPairs(call_stack[k - 1].hk_word)
  /\ call_stack # <<>> =>
       Len(call_stack) <= 1 + AnusvaraBeforeConsonant(call_stack[1].hk_word)
                            + AdjacentVowelPairs(call_stack[1].hk_word)

\* C27 amended: analyze_noun_form terminates: every call it makes to
\* itself is on a form with fewer anusvara letters and adjacent-vowel pairs
\* taken together than its caller's form, the depth of the recursion is
\* bounded by their number in the input, and every call returns.
C27_EveryCallOnSmallerForm ==
  /\ [](/\ \A k \in 2..Len(call_stack) :
             AnusvaraLetters(call_stack[k].hk_word)
               + AdjacentVowelPairs(call_stack[k].hk_word)
             < AnusvaraLetters(call_stack[k - 1].hk_word)
               + AdjacentVowelPairs(call_stack[k - 1].hk_word)
        /\ call_stack # <<>> =>
             Len(call_stack) <= 1 + AnusvaraLetters(call_stack[1].hk_word)
                                  + AdjacentVowelPairs(call_stack[1].hk_word))
  /\ (call_stack # <<>>) ~> (call_stack = <<>>)

\* C27 witness: the form with a doubled anusvara has been normalized
\* twice, each call on the normalized form of the call before
C27_NormalizedTwice ==
  /\ Len(call_stack) = 3
  /\ call_stack[1].hk_word = <<"M","M","t","i">>
  /\ call_stack[2].hk_word = <<"M","n","t","i">>
  /\ call_stack[3].hk_word = <<"n","n","t","i">>

---------------------------------------------------------------------------
(* Properties of reconstruct_noun_stem *)

\* the suffixes attached to a long vowel or to e
LongVowelSuffixes ==
  {<<"h","i","n","t","o">>, <<"h","i","M","t","o">>, <<"s","u","n","t","o">>,
   <<"s","u","M","t","o">>, <<"h","i">>, <<"h","i","M">>, <<"h","i","~">>,
   <<"s","u">>, <<"s","u","M">>}

\* the short vowel of a long vowel
Shortened(vowel) ==
  IF vowel = "a^" THEN "a" ELSE IF vowel = "i^" THEN "i" ELSE "u"

\* the noun candidates that analyze_as_noun built from a suffix match
GuessedNouns ==
  {i \in 1..Len(response.analyses) :
     /\ response.analyses[i].type = "noun"
     /\ response.analyses[i].source = "ending_based_guess"}

\* the base of a candidate: its form without its suffix
BaseOf(analysis) ==
  DropLast(analysis.form, Len(analysis.suffix))

\* C28: reconstruct_noun_stem, for a suffix of the class hinto, hiMto,
\* sunto, suMto, hi, hiM, hi~, su, suM: a base that ends in e gives the
\* base with e replaced by a for every gender; a base that ends in a long
\* vowel (a^, i^, u^) gives the base unchanged for the feminine and the
\* base with the vowel shortened for the masculine and the neuter.  It is
\* the stem of the candidates parse returns.
C28_StemOfLongVowelBase ==
  ParseOK =>
    \A i \in GuessedNouns :
      LET analysis == response.analyses[i]
          base == BaseOf(analysis)
      IN  (analysis.suffix \in LongVowelSuffixes /\ base # <<>>) =>
            /\ analysis.stem = reconstruct_noun_stem(base, analysis.suffix, analysis.gender)
            /\ Last(base) = "e" => analysis.stem = Append(DropLast(base, 1), "a")
            /\ (Last(base) \in {"a^", "i^", "u^"} /\ analysis.gender = "feminine") =>
                 analysis.stem = base
            /\ (Last(base) \in {"a^", "i^", "u^"} /\ analysis.gender # "feminine") =>
                 analysis.stem = Append(DropLast(base, 1), Shortened(Last(base)))

\* C28 witness: parse has returned, for a base that ends in a long vowel
\* before a suffix of the class, a feminine candidate with the base as its
\* stem and a masculine one with the vowel shortened
C28_FeminineKeepsLongVowel ==
  /\ ParseOK
  /\ \E i \in GuessedNouns, j \in GuessedNouns :
       /\ response.analyses[i].suffix \in LongVowelSuffixes
       /\ response.analyses[j].suffix = response.analyses[i].suffix
       /\ Last(BaseOf(response.analyses[i])) = "a^"
       /\ response.analyses[i].gender = "feminine"
       /\ response.analyses[i].stem = BaseOf(response.analyses[i])
       /\ response.analyses[j].gender = "masculine"
       /\ response.analyses[j].stem = Append(DropLast(BaseOf(response.analyses[j]), 1), "a")

---------------------------------------------------------------------------
(* Properties of the counters of the chosen suffix *)

\* the incorrect count of a suffix or ending in a suffix_accuracy dict
IncorrectCount(suffix_accuracy, suffix) ==
  IF suffix \in DOMAIN suffix_accuracy THEN suffix_accuracy[suffix].incorrect ELSE 0

\* C29 as stated: a record_feedback call never increments the incorrect
\* counter of the suffix or ending it marks as correct: after the call the
\* incorrect count of the chosen candidate's suffix is what it was before
\* the call, also when other candidates of the batch carry that suffix.
C29_ChosenSuffixNotMarkedIncorrect ==
  [][(/\ response.op = "parse"
      /\ response'.op = "record_feedback"
      /\ HasSuffixOrEnding(response.analyses[request'.correct_index])) =>
       LET chosen == SuffixOrEnding(response.analyses[request'.correct_index])
       IN  IncorrectCount(feedback_data'.suffix_accuracy, chosen)
             = IncorrectCount(feedback_data.suffix_accuracy, chosen)]_vars

---------------------------------------------------------------------------
(* Properties of the long vowels of Harvard-Kyoto *)

\* the long vowels as Harvard-Kyoto writes them
HKLongVowels == {"A", "I", "U"}

\* the rules of noun_suffixes whose must_precede holds a long vowel
LongVowelRules ==
  {r \in 1..Len(noun_suffixes) :
     noun_suffixes[r].must_precede \cap {"a^", "i^", "u^"} # {}}

\* C30 as stated: for a Harvard-Kyoto word whose base ends in a long vowel
\* written A, I or U and is followed by a suffix whose rule requires a
\* preceding long vowel, find_suffix_matches returns the match of that
\* rule, and parse yields a noun candidate that uses the suffix.
C30_LongVowelBeforeSuffixMatches ==
  (ParseOK /\ response.script = "HK"
           /\ check_attested_form(response.hk_form, "noun") = <<>>) =>
    \A r \in LongVowelRules :
      LET suffix == noun_suffixes[r].suffix
          base == DropLast(response.hk_form, Len(suffix))
      IN  (/\ EndsWith(response.hk_form, suffix)
           /\ Len(base) >= 2
           /\ Last(base) \in HKLongVowels) =>
            \A matches \in {find_suffix_matches(response.hk_form, sorted_noun_suffixes)} :
              /\ \E m \in 1..Len(matches) :
                   matches[m].suffix = suffix /\ matches[m].base = base
              /\ \E i \in 1..Len(FoundForRequest) :
                   /\ FoundForRequest[i].type = "noun"
                   /\ FoundForRequest[i].suffix = suffix
====
